---- MODULE Spec2Model ----
(***************************************************************************)
(* Model of the "Math Expression" custom node of ExtraNodes                *)
(* (src/nodes/mathexpression.py): the text pipeline (sanatize_expression,  *)
(* FunctionTransformer, replace_exact_tokens), the evaluation of the call  *)
(* form by NodeSetter, and apply_expression's effect on the node tree.     *)
(*                                                                         *)
(* Text is handled as sequences of one-character strings; the state keeps  *)
(* the node's string properties as strings.                                *)
(***************************************************************************)
EXTENDS Integers, Sequences, FiniteSets, TLC

(***************************************************************************)
(* Strings                                                                 *)
(***************************************************************************)
Chars(s) == [i \in 1..Len(s) |-> SubSeq(s, i, i)]

RECURSIVE Str(_)
Str(cs) == IF cs = <<>> THEN "" ELSE Head(cs) \o Str(Tail(cs))

Range(f) == {f[i] : i \in DOMAIN f}

RECURSIVE Flatten(_)
Flatten(ss) == IF ss = <<>> THEN <<>> ELSE Head(ss) \o Flatten(Tail(ss))

\* s[i..] starts with the sequence p
StartsWithAt(s, i, p) ==
    /\ i + Len(p) - 1 <= Len(s)
    /\ \A k \in 1..Len(p) : s[i + k - 1] = p[k]

\* Python's "p in s" on strings
Contains(s, p) == \E i \in 1..(Len(s) + 1) : StartsWithAt(s, i, p)

LowerChars == {"a","b","c","d","e","f","g","h","i","j","k","l","m",
               "n","o","p","q","r","s","t","u","v","w","x","y","z"}
UpperChars == {"A","B","C","D","E","F","G","H","I","J","K","L","M",
               "N","O","P","Q","R","S","T","U","V","W","X","Y","Z"}
DigitChars == {"0","1","2","3","4","5","6","7","8","9"}

\* The model's alphabet holds three of the ten superscript digits of the
\* source's table; the other seven are handled by the same code.
SUPERSCRIPTS ==
    [c \in {"¹","²","³"} |->
        CASE c = "¹" -> "1" [] c = "²" -> "2" [] c = "³" -> "3"]

\* The glyph of eNum is U+1D452 in the source; the model writes it "ε" so
\* that it stays one character of the sequence.
IRRATIONALS ==
    [k \in {"Pi", "eNum", "Gold"} |->
        CASE k = "Pi"   -> [unicode |-> "π", value |-> "3.1415927"]
          [] k = "eNum" -> [unicode |-> "ε", value |-> "2.7182818"]
          [] k = "Gold" -> [unicode |-> "φ", value |-> "1.6180339"]]

GlyphChars == {IRRATIONALS[k].unicode : k \in DOMAIN IRRATIONALS}

\* str.isdigit / str.isalpha of one character, and the regex classes \d, \w
PyIsDigitChar(c) == c \in DigitChars \cup DOMAIN SUPERSCRIPTS
PyIsAlphaChar(c) == c \in LowerChars \cup UpperChars \cup GlyphChars
ReDigit(c) == c \in DigitChars
ReWord(c) == PyIsDigitChar(c) \/ PyIsAlphaChar(c) \/ c = "_"

\* str.isdigit(), str.isalpha(): non-empty and every character in the class
IsDigitStr(cs) == cs # <<>> /\ \A i \in 1..Len(cs) : PyIsDigitChar(cs[i])
IsAlphaStr(cs) == cs # <<>> /\ \A i \in 1..Len(cs) : PyIsAlphaChar(cs[i])

\* str.replace(old, '') for a one-character old
RemoveChar(cs, c) == SelectSeq(cs, LAMBDA x : x # c)

(***************************************************************************)
(* match_exact_tokens / replace_exact_tokens                               *)
(***************************************************************************)
\* re.fullmatch(r'\d+(?:\.\d+)?', token)
IsNumberToken(tok) ==
    LET dots == {i \in 1..Len(tok) : tok[i] = "."}
    IN  /\ tok # <<>>
        /\ \A i \in 1..Len(tok) : ReDigit(tok[i]) \/ tok[i] = "."
        /\ Cardinality(dots) <= 1
        /\ \A i \in dots : i > 1 /\ i < Len(tok)

\* \b at the gap before position p of s
WordBoundary(s, p) ==
    LET before == p > 1 /\ p - 1 <= Len(s) /\ ReWord(s[p - 1])
        after  == p >= 1 /\ p <= Len(s) /\ ReWord(s[p])
    IN  before # after

\* boundary(token) without the lookarounds and the word boundaries
TokenMatchesAt_Prefix(s, i, tok) == StartsWithAt(s, i, tok)

\* boundary(token): the token's pattern matches s at position i
TokenMatchesAt(s, i, tok) ==
    /\ StartsWithAt(s, i, tok)
    /\ IF IsNumberToken(tok)
       THEN /\ ~(i > 1 /\ (ReDigit(s[i - 1]) \/ s[i - 1] = "."))
            /\ ~(i + Len(tok) <= Len(s)
                   /\ (ReDigit(s[i + Len(tok)]) \/ s[i + Len(tok)] = "."))
       ELSE WordBoundary(s, i) /\ WordBoundary(s, i + Len(tok))

\* the first alternative of the pattern (tokens in order) that matches at i; 0 if none
FirstAlternativeAt(s, i, tokens) ==
    LET hits == {k \in 1..Len(tokens) : TokenMatchesAt(s, i, tokens[k])}
    IN  IF hits = {} THEN 0 ELSE CHOOSE k \in hits : \A j \in hits : k <= j

RECURSIVE FindAllFrom(_, _, _)
FindAllFrom(s, i, tokens) ==
    IF i > Len(s) THEN <<>>
    ELSE LET k == FirstAlternativeAt(s, i, tokens)
         IN  IF k = 0 THEN FindAllFrom(s, i + 1, tokens)
             ELSE <<tokens[k]>> \o FindAllFrom(s, i + Len(tokens[k]), tokens)

\* re.findall(pattern, string): the matched tokens, left to right
match_exact_tokens(string, tokenlist) == FindAllFrom(string, 1, tokenlist)

RECURSIVE SubFrom(_, _, _, _)
SubFrom(s, i, keys, vals) ==
    IF i > Len(s) THEN <<>>
    ELSE LET k == FirstAlternativeAt(s, i, keys)
         IN  IF k = 0 THEN <<s[i]>> \o SubFrom(s, i + 1, keys, vals)
             ELSE vals[k] \o SubFrom(s, i + Len(keys[k]), keys, vals)

\* re.sub(pattern, repl, string); the mapping is given as its keys and values in
\* the dictionary's order; an empty mapping has the empty pattern, which
\* matches everywhere and replaces nothing
replace_exact_tokens(string, keys, vals) == SubFrom(string, 1, keys, vals)

(***************************************************************************)
(* replace_superscript_exponents                                           *)
(***************************************************************************)
IsSuperscript(c) == c \in DOMAIN SUPERSCRIPTS
\* [A-Za-z0-9] and the three glyphs
IsBaseChar(c) == c \in LowerChars \cup UpperChars \cup DigitChars \cup GlyphChars

RECURSIVE SuperscriptRun(_, _)
SuperscriptRun(s, i) ==
    IF i <= Len(s) /\ IsSuperscript(s[i]) THEN 1 + SuperscriptRun(s, i + 1) ELSE 0

RECURSIVE BaseRun(_, _)
BaseRun(s, i) ==
    IF i <= Len(s) /\ IsBaseChar(s[i]) THEN 1 + BaseRun(s, i + 1) ELSE 0

Exponent(s, i, m) == [k \in 1..m |-> SUPERSCRIPTS[s[i + k - 1]]]

\* re.sub(pattern_base, repl_base, expr)
RECURSIVE SubBase(_, _)
SubBase(s, i) ==
    IF i > Len(s) THEN <<>>
    ELSE LET n == BaseRun(s, i)
             m == SuperscriptRun(s, i + n)
         IN  IF n = 0 THEN <<s[i]>> \o SubBase(s, i + 1)
             ELSE IF m = 0 THEN SubSeq(s, i, i + n - 1) \o SubBase(s, i + n)
             ELSE <<"(">> \o SubSeq(s, i, i + n - 1) \o <<"*", "*">>
                    \o Exponent(s, i + n, m) \o <<")">> \o SubBase(s, i + n + m)

\* re.sub(pattern_paren, repl_paren, expr)
RECURSIVE SubParen(_, _)
SubParen(s, i) ==
    IF i > Len(s) THEN <<>>
    ELSE LET m == SuperscriptRun(s, i + 1)
         IN  IF s[i] = ")" /\ m > 0
             THEN <<")", "*", "*">> \o Exponent(s, i + 1, m) \o SubParen(s, i + 1 + m)
             ELSE <<s[i]>> \o SubParen(s, i + 1)

replace_superscript_exponents(expr) == SubParen(SubBase(expr, 1), 1)

(***************************************************************************)
(* NodeSetter: the registry                                                *)
(***************************************************************************)
\* the classmethods of NodeSetter with the number of sockets each takes
\* (0 for the two that are not primitives)
NodeSetterMethods ==
    [n \in {"get_functions", "execute_function_expression",
            "_floatmath", "_floatmath_nroot", "_mix", "_floatclamp",
            "add", "subtract", "mult", "div", "exp", "power", "log", "sqrt",
            "invsqrt", "nroot", "abs", "min", "max", "round", "floor", "ceil",
            "trunc", "modulo", "wrap", "snap", "floordiv", "sin", "cos", "tan",
            "asin", "acos", "atan", "hsin", "hcos", "htan", "rad", "deg",
            "lerp", "mix", "clamp", "clampr"} |->
        CASE n \in {"sqrt", "invsqrt", "abs", "round", "floor", "ceil", "trunc",
                    "sin", "cos", "tan", "asin", "acos", "atan", "hsin", "hcos",
                    "htan", "rad", "deg"} -> 1
          [] n \in {"add", "subtract", "mult", "div", "exp", "power", "log",
                    "nroot", "min", "max", "modulo", "snap", "floordiv",
                    "_floatmath_nroot"} -> 2
          [] n \in {"wrap", "lerp", "mix", "clamp", "clampr"} -> 3
          [] n \in {"_floatmath", "_mix", "_floatclamp"} -> 4
          [] OTHER -> 0]

\* NodeSetter.get_functions(get_names=True)
get_functions ==
    {n \in DOMAIN NodeSetterMethods :
        /\ Chars(n)[1] # "_"
        /\ n \notin {"get_functions", "execute_function_expression"}}

(***************************************************************************)
(* sanatize_expression                                                     *)
(***************************************************************************)
synthax == Chars(".,()")
operand == Chars("/*-+%")

\* the characters "for char in operand + ',()'" replaces by '|'
SplitChars == Range(operand) \cup {",", "(", ")"}

authorized_symbols ==
    Range(synthax) \cup Range(operand) \cup LowerChars \cup UpperChars \cup DigitChars

\* elemTotal.split('|') without the empty pieces, as strings
RECURSIVE SplitTokens(_, _)
SplitTokens(cs, cur) ==
    IF cs = <<>> THEN (IF cur = <<>> THEN {} ELSE {Str(cur)})
    ELSE IF Head(cs) \in SplitChars
         THEN (IF cur = <<>> THEN {} ELSE {Str(cur)}) \cup SplitTokens(Tail(cs), <<>>)
         ELSE SplitTokens(Tail(cs), Append(cur, Head(cs)))

\* one iteration of the classification loop for the token e:
\* "Fct", "Const", "Var", "Cmplx", or the error "Taken" / "Unrecognized"
ClassifyToken(e, expression, implicit_mult) ==
    LET cs == Chars(e)
    IN  IF implicit_mult
        THEN IF e \in get_functions /\ Contains(expression, Append(cs, "("))
                 THEN "Fct"
             ELSE IF IsDigitStr(RemoveChar(cs, ".")) THEN "Const"
             ELSE IF IsAlphaStr(cs) THEN "Var"
             ELSE IF \E i \in 1..Len(cs) : PyIsDigitChar(cs[i]) THEN "Cmplx"
             ELSE "Unrecognized"
        ELSE IF e \in get_functions THEN "Fct"
             ELSE IF IsDigitStr(RemoveChar(cs, ".")) THEN "Const"
             ELSE IF IsAlphaStr(cs)
                  THEN (IF e \in get_functions THEN "Taken" ELSE "Var")
             ELSE "Unrecognized"

ClassifyMessage(e, class) ==
    IF class = "Taken" THEN "Variable '" \o e \o "' is Taken"
    ELSE "Unrecorgnized Variable '" \o e \o "'"

\* re.sub(r"(\d+(?:\.\d+)?)(\()", r"\1*\2", expression): a '(' that directly
\* follows a digit gets a '*' in front
RECURSIVE ImplicitParenProduct(_, _)
ImplicitParenProduct(s, i) ==
    IF i > Len(s) THEN <<>>
    ELSE IF s[i] = "(" /\ i > 1 /\ ReDigit(s[i - 1])
         THEN <<"*", "(">> \o ImplicitParenProduct(s, i + 1)
         ELSE <<s[i]>> \o ImplicitParenProduct(s, i + 1)

\* the keys and the values of IRRATIONALS, in the dictionary's order
IrrationalGlyphs ==
    << Chars(IRRATIONALS["Pi"].unicode), Chars(IRRATIONALS["eNum"].unicode),
       Chars(IRRATIONALS["Gold"].unicode) >>
IrrationalValues ==
    << Chars(IRRATIONALS["Pi"].value), Chars(IRRATIONALS["eNum"].value),
       Chars(IRRATIONALS["Gold"].value) >>

\* "if any(char in expression for char in SUPERSCRIPTS.keys())"
Superscripted(expression) ==
    IF \E i \in 1..Len(expression) : IsSuperscript(expression[i])
    THEN replace_superscript_exponents(expression) ELSE expression

\* "if mached:" the glyphs found are replaced by their values
ReplaceMatched(expression, mached) ==
    LET idx == SelectSeq(<<1, 2, 3>>, LAMBDA k : IrrationalGlyphs[k] \in Range(mached))
    IN  IF mached # <<>>
        THEN replace_exact_tokens(expression,
                                  [k \in 1..Len(idx) |-> IrrationalGlyphs[idx[k]]],
                                  [k \in 1..Len(idx) |-> IrrationalValues[idx[k]]])
        ELSE expression

\* ReplaceIrrationals when the glyphs are left in the expression
ReplaceIrrationals_None(expression) == expression

ReplaceIrrationals(expression) ==
    ReplaceMatched(expression, match_exact_tokens(expression, IrrationalGlyphs))

\* the expression after the three rewrites that come before classification
Normalized(raw) == ReplaceIrrationals(Superscripted(RemoveChar(raw, " ")))

\* the element sets if a function name were also added to the variables
ElemSets_Overlap(elemTotal, class, seen) ==
    [elemTotal |-> elemTotal,
     elemFct   |-> {e \in seen : class[e] = "Fct"},
     elemConst |-> {e \in seen : class[e] = "Const"},
     elemVar   |-> {e \in seen : class[e] \in {"Var", "Fct"}},
     elemCmplx |-> {e \in seen : class[e] = "Cmplx"}]

\* the element sets once the loop has classified the tokens seen
ElemSets(elemTotal, class, seen) ==
    [elemTotal |-> elemTotal,
     elemFct   |-> {e \in seen : class[e] = "Fct"},
     elemConst |-> {e \in seen : class[e] = "Const"},
     elemVar   |-> {e \in seen : class[e] = "Var"},
     elemCmplx |-> {e \in seen : class[e] = "Cmplx"}]

\* CheckSymbols without "Ensure user is using correct symbols"
CheckSymbols_Skip(expression, elem) ==
    [err |-> "", expression |-> Str(ImplicitParenProduct(expression, 1)),
     elem |-> elem]

\* the check of the characters and the implicit product in front of '(' that
\* follow the classification loop
CheckSymbols(expression, elem) ==
    LET unauthorized ==
            {i \in 1..Len(expression) : expression[i] \notin authorized_symbols}
    IN  IF unauthorized # {}
        THEN [err |-> "Unrecorgnized Symbol '"
                        \o expression[CHOOSE i \in unauthorized :
                                          \A j \in unauthorized : i <= j] \o "'",
              expression |-> "", elem |-> elem]
        ELSE [err |-> "", expression |-> Str(ImplicitParenProduct(expression, 1)),
              elem |-> elem]

\* The classification loop walks a set: when a token is rejected, the tokens
\* classified before it are any subset of the others.
ClassifyAll(expression, elemTotal, class) ==
    LET bad == {e \in elemTotal : class[e] \in {"Taken", "Unrecognized"}}
    IN  IF bad # {}
        THEN UNION {{[err |-> ClassifyMessage(e, class[e]), expression |-> "",
                      elem |-> ElemSets(elemTotal, class, seen)] :
                        seen \in SUBSET (elemTotal \ bad)} : e \in bad}
        ELSE {CheckSymbols(expression, ElemSets(elemTotal, class, elemTotal))}

\* the classification of each token of the normalized expression
SanitizeNormalized(expression, implicit_mult) ==
    ClassifyAll(expression, SplitTokens(expression, <<>>),
                [e \in SplitTokens(expression, <<>>) |->
                    ClassifyToken(e, expression, implicit_mult)])

\* The results sanatize_expression can give for a raw expression (a sequence of
\* characters): [err, expression, elem], err = "" when the expression is returned.
sanatize_expression(raw, implicit_mult) ==
    SanitizeNormalized(Normalized(raw), implicit_mult)

(***************************************************************************)
(* Python's tokenizer and expression grammar (ast.parse(..., mode='eval'), *)
(* and the parse exec() makes of the text it is given), for the characters *)
(* that pass the sanitizer and for the socket handles put in by            *)
(* replace_exact_tokens.  A handle (get_socket_python_api's string) is one *)
(* element of the text: a string that starts with "@".                     *)
(*                                                                         *)
(* Not modelled: Python keywords (the inputs hold none) and the number     *)
(* spellings 2e5, 2j, 0x1f (a number directly followed by a letter is the  *)
(* syntax error it is for every other letter).                             *)
(***************************************************************************)
IsHandle(c) == Len(c) > 1 /\ SubSeq(c, 1, 1) = "@"

IsNameStart(c) == ~IsHandle(c) /\ (PyIsAlphaChar(c) \/ c = "_")
IsNameChar(c)  == ~IsHandle(c) /\ (PyIsAlphaChar(c) \/ c = "_" \/ ReDigit(c))

RECURSIVE NameRun(_, _)
NameRun(s, i) == IF i <= Len(s) /\ IsNameChar(s[i]) THEN 1 + NameRun(s, i + 1) ELSE 0

RECURSIVE DigitRun(_, _)
DigitRun(s, i) == IF i <= Len(s) /\ ReDigit(s[i]) THEN 1 + DigitRun(s, i + 1) ELSE 0

\* the length of the number literal at i (digits, digits '.', digits '.' digits,
\* '.' digits), 0 if none starts there
NumberRun(s, i) ==
    LET d1 == DigitRun(s, i)
    IN  IF d1 > 0
        THEN IF i + d1 <= Len(s) /\ s[i + d1] = "."
             THEN d1 + 1 + DigitRun(s, i + d1 + 1)
             ELSE d1
        ELSE IF i <= Len(s) /\ s[i] = "." /\ DigitRun(s, i + 1) > 0
             THEN 1 + DigitRun(s, i + 1)
             ELSE 0

\* an integer literal with a leading zero that is not zero ("012") is refused
BadLeadingZero(lit) ==
    /\ "." \notin Range(lit)
    /\ Len(lit) > 1
    /\ lit[1] = "0"
    /\ \E k \in 1..Len(lit) : lit[k] # "0"

PyOperators == {"+", "-", "*", "/", "%", "(", ")", ",", "."}

\* the token that starts at position i of the text, as [tok, next]: tok is
\* <<type, text>> (an "ERR" token stands for a tokenizer error, a "SKIP" token
\* for white space) and next the position after it
TokenAt(s, i) ==
    LET c == s[i]
        n == NameRun(s, i)
        m == NumberRun(s, i)
    IN  CASE c = " " -> [tok |-> <<"SKIP", "">>, next |-> i + 1]
          [] IsHandle(c) -> [tok |-> <<"SOCK", c>>, next |-> i + 1]
          [] IsNameStart(c) /\ i + n <= Len(s) /\ IsHandle(s[i + n]) ->
                \* the identifier runs into the handle's text ("ng.nodes[...]"):
                \* one primary expression on a name nothing defines
                [tok |-> <<"BADNAME", Str(SubSeq(s, i, i + n - 1)) \o "ng">>,
                 next |-> i + n + 1]
          [] IsNameStart(c) /\ ~(i + n <= Len(s) /\ IsHandle(s[i + n])) ->
                [tok |-> <<"NAME", Str(SubSeq(s, i, i + n - 1))>>, next |-> i + n]
          [] ~IsNameStart(c) /\ c # " " /\ ~IsHandle(c) /\ m > 0 ->
                IF \/ (i + m <= Len(s) /\ (IsNameChar(s[i + m]) \/ IsHandle(s[i + m])))
                   \/ BadLeadingZero(SubSeq(s, i, i + m - 1))
                THEN [tok |-> <<"ERR", "">>, next |-> Len(s) + 1]
                ELSE [tok |-> <<"NUMBER", Str(SubSeq(s, i, i + m - 1))>>, next |-> i + m]
          [] OTHER ->
                IF StartsWithAt(s, i, <<"*", "*">>)
                    THEN [tok |-> <<"OP", "**">>, next |-> i + 2]
                ELSE IF StartsWithAt(s, i, <<"/", "/">>)
                    THEN [tok |-> <<"OP", "//">>, next |-> i + 2]
                ELSE IF c \in PyOperators THEN [tok |-> <<"OP", c>>, next |-> i + 1]
                ELSE [tok |-> <<"ERR", "">>, next |-> Len(s) + 1]

\* the tokens of the text from position i on, after the tokens acc
RECURSIVE TokenizeFrom(_, _, _)
TokenizeFrom(s, i, acc) ==
    IF i > Len(s) THEN acc
    ELSE TokenizeFrom(s, TokenAt(s, i).next,
                      IF TokenAt(s, i).tok[1] = "SKIP" THEN acc
                      ELSE Append(acc, TokenAt(s, i).tok))

\* AST nodes are <<kind, text, children>>:
\*   Name id | Constant literal | Sock handle | BadName id
\*   BinOp op <<left, right>> | UnaryOp op <<operand>>
\*   Call "" <<func, arg, ...>> | Tuple "" elts | Starred "" <<value>>
\*   Attribute attr <<value>>   (attr starts with "@" when the text after the
\*   '.' is a socket handle: the attribute "ng" of the value, then the rest)
\*   KwUnpack "" <<value>>   (the keyword(arg=None, value) of f(**value))
Node(kind, text, children) == <<kind, text, children>>
Kind(n) == n[1]
Text(n) == n[2]
Children(n) == n[3]

ParseFail == [ok |-> FALSE, node |-> <<>>, pos |-> 0]
Parsed(n, p) == [ok |-> TRUE, node |-> n, pos |-> p]
TokAt(toks, i) == IF i <= Len(toks) THEN toks[i] ELSE <<"END", "">>
IsOp(toks, i, ops) == TokAt(toks, i)[1] = "OP" /\ TokAt(toks, i)[2] \in ops

\* Parse(rule, toks, i, acc, kw) applies one rule of the grammar at token i;
\* acc is the rule's left operand or the elements read so far, kw is TRUE once
\* a '**' argument was read
RECURSIVE Parse(_, _, _, _, _)
Parse(rule, toks, i, acc, kw) ==
    CASE rule = "eval" ->
            \* eval_input: expressions ENDMARKER
            LET e == Parse("sum", toks, 1, <<>>, FALSE)
            IN  IF \E k \in 1..Len(toks) : toks[k][1] = "ERR" THEN ParseFail
                ELSE IF ~e.ok THEN ParseFail
                ELSE IF IsOp(toks, e.pos, {","})
                     THEN Parse("top_elts", toks, e.pos + 1, <<e.node>>, FALSE)
                ELSE IF e.pos > Len(toks) THEN e
                ELSE ParseFail
      [] rule = "top_elts" ->
            \* the elements of a top-level tuple after its first comma
            IF i > Len(toks) THEN Parsed(Node("Tuple", "", acc), i)
            ELSE LET e == Parse("sum", toks, i, <<>>, FALSE)
                 IN  IF ~e.ok THEN ParseFail
                     ELSE IF IsOp(toks, e.pos, {","})
                          THEN Parse("top_elts", toks, e.pos + 1, Append(acc, e.node), FALSE)
                     ELSE IF e.pos > Len(toks)
                          THEN Parsed(Node("Tuple", "", Append(acc, e.node)), e.pos)
                     ELSE ParseFail
      [] rule = "sum" ->
            \* sum: sum ('+' | '-') term | term
            LET t == Parse("term", toks, i, <<>>, FALSE)
            IN  IF t.ok THEN Parse("sum_rest", toks, t.pos, t.node, FALSE) ELSE ParseFail
      [] rule = "sum_rest" ->
            IF IsOp(toks, i, {"+", "-"})
            THEN LET r == Parse("term", toks, i + 1, <<>>, FALSE)
                 IN  IF r.ok
                     THEN Parse("sum_rest", toks, r.pos,
                                Node("BinOp", toks[i][2], <<acc, r.node>>), FALSE)
                     ELSE ParseFail
            ELSE Parsed(acc, i)
      [] rule = "term" ->
            \* term: term ('*' | '/' | '//' | '%') factor | factor
            LET f == Parse("factor", toks, i, <<>>, FALSE)
            IN  IF f.ok THEN Parse("term_rest", toks, f.pos, f.node, FALSE) ELSE ParseFail
      [] rule = "term_rest" ->
            IF IsOp(toks, i, {"*", "/", "//", "%"})
            THEN LET r == Parse("factor", toks, i + 1, <<>>, FALSE)
                 IN  IF r.ok
                     THEN Parse("term_rest", toks, r.pos,
                                Node("BinOp", toks[i][2], <<acc, r.node>>), FALSE)
                     ELSE ParseFail
            ELSE Parsed(acc, i)
      [] rule = "factor" ->
            \* factor: ('+' | '-') factor | power
            IF IsOp(toks, i, {"+", "-"})
            THEN LET f == Parse("factor", toks, i + 1, <<>>, FALSE)
                 IN  IF f.ok THEN Parsed(Node("UnaryOp", toks[i][2], <<f.node>>), f.pos)
                     ELSE ParseFail
            ELSE Parse("power", toks, i, <<>>, FALSE)
      [] rule = "power" ->
            \* power: primary '**' factor | primary
            LET p == Parse("primary", toks, i, <<>>, FALSE)
            IN  IF ~p.ok THEN ParseFail
                ELSE IF IsOp(toks, p.pos, {"**"})
                     THEN LET f == Parse("factor", toks, p.pos + 1, <<>>, FALSE)
                          IN  IF f.ok
                              THEN Parsed(Node("BinOp", "**", <<p.node, f.node>>), f.pos)
                              ELSE ParseFail
                     ELSE p
      [] rule = "primary" ->
            \* primary: primary '.' NAME | primary '(' [arguments] ')' | atom
            LET a == Parse("atom", toks, i, <<>>, FALSE)
            IN  IF a.ok THEN Parse("trailers", toks, a.pos, a.node, FALSE) ELSE ParseFail
      [] rule = "trailers" ->
            IF IsOp(toks, i, {"("})
            THEN LET c == Parse("args", toks, i + 1, <<acc>>, FALSE)
                 IN  IF c.ok THEN Parse("trailers", toks, c.pos, c.node, FALSE)
                     ELSE ParseFail
            ELSE IF IsOp(toks, i, {"."})
            THEN LET t == TokAt(toks, i + 1)
                 IN  IF t[1] = "NAME"
                     THEN Parse("trailers", toks, i + 2,
                                Node("Attribute", t[2], <<acc>>), FALSE)
                     ELSE IF t[1] \in {"SOCK", "BADNAME"}
                     THEN Parse("trailers", toks, i + 2,
                                Node("Attribute", "@" \o t[2], <<acc>>), FALSE)
                     ELSE ParseFail
            ELSE Parsed(acc, i)
      [] rule = "args" ->
            \* arguments: ','.(starred_expression | expression)+ [',' kwargs] [',']
            \* | kwargs; acc is <<func, args so far>>
            IF IsOp(toks, i, {")"}) THEN Parsed(Node("Call", "", acc), i + 1)
            ELSE LET star == IsOp(toks, i, {"*"})
                     dstar == IsOp(toks, i, {"**"})
                     e == Parse("sum", toks, IF star \/ dstar THEN i + 1 ELSE i, <<>>, FALSE)
                     arg == IF star THEN Node("Starred", "", <<e.node>>)
                            ELSE IF dstar THEN Node("KwUnpack", "", <<e.node>>)
                            ELSE e.node
                 IN  IF ~e.ok \/ (kw /\ ~dstar) THEN ParseFail
                     ELSE IF IsOp(toks, e.pos, {","})
                          THEN Parse("args", toks, e.pos + 1, Append(acc, arg), kw \/ dstar)
                     ELSE IF IsOp(toks, e.pos, {")"})
                          THEN Parsed(Node("Call", "", Append(acc, arg)), e.pos + 1)
                     ELSE ParseFail
      [] rule = "elts" ->
            \* the elements of a parenthesized tuple after its first comma, up to ')'
            IF IsOp(toks, i, {")"}) THEN Parsed(Node("Tuple", "", acc), i + 1)
            ELSE LET star == IsOp(toks, i, {"*"})
                     e == Parse("sum", toks, IF star THEN i + 1 ELSE i, <<>>, FALSE)
                     elt == IF star THEN Node("Starred", "", <<e.node>>) ELSE e.node
                 IN  IF ~e.ok THEN ParseFail
                     ELSE IF IsOp(toks, e.pos, {","})
                          THEN Parse("elts", toks, e.pos + 1, Append(acc, elt), FALSE)
                     ELSE IF IsOp(toks, e.pos, {")"})
                          THEN Parsed(Node("Tuple", "", Append(acc, elt)), e.pos + 1)
                     ELSE ParseFail
      [] rule = "atom" ->
            \* atom: NAME | NUMBER | group | tuple   (and a socket handle)
            LET t == TokAt(toks, i)
            IN  IF t[1] = "NAME" THEN Parsed(Node("Name", t[2], <<>>), i + 1)
                ELSE IF t[1] = "NUMBER" THEN Parsed(Node("Constant", t[2], <<>>), i + 1)
                ELSE IF t[1] = "SOCK" THEN Parsed(Node("Sock", t[2], <<>>), i + 1)
                ELSE IF t[1] = "BADNAME" THEN Parsed(Node("BadName", t[2], <<>>), i + 1)
                ELSE IF IsOp(toks, i, {"("})
                THEN IF IsOp(toks, i + 1, {")"}) THEN Parsed(Node("Tuple", "", <<>>), i + 2)
                     ELSE LET star == IsOp(toks, i + 1, {"*"})
                              e == Parse("sum", toks, IF star THEN i + 2 ELSE i + 1,
                                         <<>>, FALSE)
                              elt == IF star THEN Node("Starred", "", <<e.node>>)
                                     ELSE e.node
                          IN  IF ~e.ok THEN ParseFail
                              ELSE IF IsOp(toks, e.pos, {","})
                                   THEN Parse("elts", toks, e.pos + 1, <<elt>>, FALSE)
                              ELSE IF IsOp(toks, e.pos, {")"}) /\ ~star
                                   THEN Parsed(e.node, e.pos + 1)
                              ELSE ParseFail
                ELSE ParseFail

\* ast.parse(text, mode='eval'); ok = FALSE is a SyntaxError
ast_parse(text) == Parse("eval", TokenizeFrom(text, 1, <<>>), 1, <<>>, FALSE)

(***************************************************************************)
(* FunctionTransformer                                                     *)
(***************************************************************************)
\* visit_BinOp's match on node.op
BinOpFunction(op) ==
    CASE op = "+"  -> "add"
      [] op = "-"  -> "subtract"
      [] op = "*"  -> "mult"
      [] op = "/"  -> "div"
      [] op = "**" -> "exp"
      [] op = "%"  -> "modulo"
      [] op = "//" -> "floordiv"

\* visit_BinOp: the children first, then the node becomes a call of the mapped
\* function on [left, right]
RECURSIVE visit(_)

\* visit_BinOp with the operands exchanged
visit_BinOp_Swapped(node) ==
    Node("Call", "",
         << Node("Name", BinOpFunction(Text(node)), <<>>),
            visit(Children(node)[2]), visit(Children(node)[1]) >>)

visit_BinOp(node) ==
    Node("Call", "",
         << Node("Name", BinOpFunction(Text(node)), <<>>),
            visit(Children(node)[1]), visit(Children(node)[2]) >>)

\* NodeTransformer.visit: visit_BinOp for a BinOp; visit_Name, visit_Constant
\* return the node; visit_Call and generic_visit (every other kind) visit the
\* children and keep the node
visit(node) ==
    IF Kind(node) = "BinOp" THEN visit_BinOp(node)
    ELSE IF Kind(node) \in {"Name", "Constant"} THEN node
    ELSE Node(Kind(node), Text(node),
              [k \in 1..Len(Children(node)) |-> visit(Children(node)[k])])

\* self.functions_used after the visit
RECURSIVE functions_used(_)
functions_used(node) ==
    LET below == UNION {functions_used(Children(node)[k]) : k \in 1..Len(Children(node))}
    IN  IF Kind(node) = "BinOp" THEN {BinOpFunction(Text(node))} \cup below
        ELSE IF Kind(node) = "Call" /\ Kind(Children(node)[1]) = "Name"
             THEN {Text(Children(node)[1])} \cup below
        ELSE below

\* repr() of the value of a number literal: an int without its leading zeros, a
\* float with its integer part without leading zeros and its fraction without
\* trailing zeros (the inputs stay inside the range repr() writes positionally)
RECURSIVE StripLeadingZeros(_)
StripLeadingZeros(ds) ==
    IF ds = <<>> THEN <<"0">>
    ELSE IF Head(ds) = "0" /\ Len(ds) > 1 THEN StripLeadingZeros(Tail(ds))
    ELSE ds

RECURSIVE StripTrailingZeros(_)
StripTrailingZeros(ds) ==
    IF ds = <<>> THEN <<"0">>
    ELSE IF ds[Len(ds)] = "0" /\ Len(ds) > 1
         THEN StripTrailingZeros(SubSeq(ds, 1, Len(ds) - 1))
    ELSE ds

NumberRepr(lit) ==
    LET dots == {i \in 1..Len(lit) : lit[i] = "."}
        d == CHOOSE i \in dots : TRUE
    IN  IF dots = {} THEN StripLeadingZeros(lit)
        ELSE StripLeadingZeros(SubSeq(lit, 1, d - 1)) \o <<".">>
               \o StripTrailingZeros(SubSeq(lit, d + 1, Len(lit)))

\* ast.unparse
RECURSIVE unparse(_), UnparseList(_, _)
UnparseList(nodes, k) ==
    IF k > Len(nodes) THEN <<>>
    ELSE (IF k > 1 THEN <<",", " ">> ELSE <<>>)
           \o unparse(nodes[k]) \o UnparseList(nodes, k + 1)

unparse(node) ==
    LET kind == Kind(node)
        kids == Children(node)
    IN  CASE kind = "Name"     -> Chars(Text(node))
          [] kind = "Constant" -> NumberRepr(Chars(Text(node)))
          [] kind = "UnaryOp"  -> Chars(Text(node)) \o unparse(kids[1])
          [] kind = "Starred"  -> <<"*">> \o unparse(kids[1])
          [] kind = "KwUnpack" -> <<"*", "*">> \o unparse(kids[1])
          [] kind = "Tuple"    ->
                <<"(">> \o UnparseList(kids, 1)
                  \o (IF Len(kids) = 1 THEN <<",">> ELSE <<>>) \o <<")">>
          [] kind = "Attribute" ->
                \* the value at atom precedence; "3 .real" for an integer literal
                (IF Kind(kids[1]) = "UnaryOp"
                 THEN <<"(">> \o unparse(kids[1]) \o <<")">>
                 ELSE unparse(kids[1]))
                  \o (IF Kind(kids[1]) = "Constant" /\ "." \notin Range(Chars(Text(kids[1])))
                      THEN <<" ">> ELSE <<>>)
                  \o <<".">> \o Chars(Text(node))
          [] kind = "Call"     ->
                (IF Kind(kids[1]) = "UnaryOp"
                 THEN <<"(">> \o unparse(kids[1]) \o <<")">>
                 ELSE unparse(kids[1]))
                  \o <<"(">> \o UnparseList(Tail(kids), 1) \o <<")">>

\* transform_expression without "Ensure all functions used are available valid"
transform_expression_Unchecked(math_express) ==
    IF ~ast_parse(Chars(math_express)).ok
    THEN {[err |-> "Math Expression Not Recognized", fctexp |-> ""]}
    ELSE {[err |-> "", fctexp |-> Str(unparse(visit(ast_parse(Chars(math_express)).node)))]}

\* transform_expression: [err, fctexp]; the loop over functions_used walks a set,
\* so the function named by the error is any of the unknown ones
transform_expression(math_express) ==
    LET tree == ast_parse(Chars(math_express))
        transformed_node == visit(tree.node)
        unknown == functions_used(tree.node) \ get_functions
    IN  IF ~tree.ok
        THEN {[err |-> "Math Expression Not Recognized", fctexp |-> ""]}
        ELSE IF unknown # {}
        THEN {[err |-> "'" \o fname \o "' Function Not Recognized", fctexp |-> ""] :
                 fname \in unknown}
        ELSE {[err |-> "", fctexp |-> Str(unparse(transformed_node))]}

(***************************************************************************)
(* The node tree (bpy's node group, reached through the Graph Backend)     *)
(*   inputs : the boundary input sockets of "Group Input" in order, each   *)
(*            [id, name]; the virtual socket that follows them is left out *)
(*   nodes  : the interior nodes in creation order, each                   *)
(*            [type, op, name, value]                                      *)
(*   links  : pairs <<from, to>>; from is <<"in", socket id, 0>> or        *)
(*            <<"node", index, 0>>, to is <<"node", index, input slot>> or *)
(*            OutSocket ("Group Output".inputs[0])                         *)
(*   active : ng.nodes.active as an index of nodes, 0 for None             *)
(***************************************************************************)
OutSocket == <<"out", 0, 0>>
InSource(id) == <<"in", id, 0>>
NodeSource(k) == <<"node", k, 0>>
NodeInput(k, slot) == <<"node", k, slot>>

\* ng.links.new: an input socket holds one link
link_new(links, from, to) == {l \in links : l[2] # to} \cup {<<from, to>>}

\* ng.nodes.new(...) followed by the caller's settings
NewNode(type, op, name, value) ==
    [type |-> type, op |-> op, name |-> name, value |-> value]

(***************************************************************************)
(* exec(api_expression, namespace): evaluation of the call form            *)
(*                                                                         *)
(* Values are <<kind, payload>>: "sock" (a socket, payload its link        *)
(* source), "num" (a Python number, payload <<it is non-zero, it is a      *)
(* float>>), "tuple" (payload the element values), "func" (a registry      *)
(* primitive), "object" (any other object of the host: a built-in, the     *)
(* node tree "ng", a method; payload its name).                            *)
(* An exception is [cls, kind, f, n]; cls "" means none.                   *)
(***************************************************************************)
NoExc == [cls |-> "", kind |-> "", f |-> "", n |-> 0]
Exc(cls, kind) == [cls |-> cls, kind |-> kind, f |-> "", n |-> 0]
ArityExc(kind, f, n) == [cls |-> "TypeError", kind |-> kind, f |-> f, n |-> n]

IsSock(v) == v[1] = "sock"
Truthy(v) ==
    CASE v[1] = "num"   -> v[2][1]
      [] v[1] = "tuple" -> v[2] # <<>>
      [] OTHER          -> TRUE

\* "sock1.id_data" on something that is not a socket
IdDataExc(v) ==
    IF v[1] = "tuple" THEN Exc("AttributeError", "tuple object")
    ELSE Exc("AttributeError", "other")

\* link_sockets(sock, <input>) of the boiler module with a first argument that
\* is not a socket: the call fails, as an AttributeError or as a TypeError
\* depending on how the boiler reaches ng.links.new (linkErr)
LinkExc(v, linkErr) ==
    IF linkErr = "AttributeError" THEN IdDataExc(v) ELSE Exc("TypeError", "other")

R(g, val, exc) == [g |-> g, val |-> val, exc |-> exc]
None == <<"none", <<>>>>

\* link_sockets(v, node.inputs[slot]) as one step of a primitive
LinkStep(r, v, k, slot, linkErr) ==
    IF r.exc.cls # "" THEN r
    ELSE IF ~IsSock(v) THEN R(r.g, None, LinkExc(v, linkErr))
    ELSE R([r.g EXCEPT !.links = link_new(@, v[2], NodeInput(k, slot))], r.val, NoExc)

\* ng.nodes.new(...) and "ng.nodes.active = node"
AddActive(g, node) ==
    [g EXCEPT !.nodes = Append(@, node), !.active = Len(g.nodes) + 1]

\* "if (sockN): link_sockets(sockN, node.inputs[slot])" for the n-th argument
LinkIfGiven(r, args, n, k, slot, linkErr) ==
    IF Len(args) >= n /\ Truthy(args[n]) THEN LinkStep(r, args[n], k, slot, linkErr)
    ELSE r

\* the links _floatmath makes to the node it has just added to g1
FloatMathLinks(g1, args, linkErr) ==
    LinkIfGiven(
        LinkIfGiven(
            LinkStep(R(g1, <<"sock", NodeSource(Len(g1.nodes))>>, NoExc),
                     args[1], Len(g1.nodes), 0, linkErr),
            args, 2, Len(g1.nodes), 1, linkErr),
        args, 3, Len(g1.nodes), 2, linkErr)

\* NodeSetter._floatmath(operation_type, sock1, sock2=None, sock3=None);
\* args holds the sockets that were passed
_floatmath(g, operation_type, args, linkErr) ==
    IF ~IsSock(args[1]) THEN R(g, None, IdDataExc(args[1]))
    ELSE FloatMathLinks(AddActive(g, NewNode("MATH", operation_type, "", "")),
                        args, linkErr)

\* the links of the POWER node _floatmath_nroot has just added to g2; d is the
\* DIVIDE node
NrootPowerLinks(g2, args, d, linkErr) ==
    LinkStep(LinkStep(R(g2, <<"sock", NodeSource(Len(g2.nodes))>>, NoExc),
                      args[1], Len(g2.nodes), 0, linkErr),
             <<"sock", NodeSource(d)>>, Len(g2.nodes), 1, linkErr)

\* _floatmath_nroot after the DIVIDE node d got its link (r1)
NrootPower(r1, args, d, linkErr) ==
    IF r1.exc.cls # "" THEN r1
    ELSE NrootPowerLinks(AddActive(r1.g, NewNode("MATH", "POWER", "", "")),
                         args, d, linkErr)

\* the DIVIDE node _floatmath_nroot has just added to g1, 1.0 over sock2
NrootDivide(g1, args, linkErr) ==
    NrootPower(LinkStep(R(g1, None, NoExc), args[2], Len(g1.nodes), 1, linkErr),
               args, Len(g1.nodes), linkErr)

\* NodeSetter._floatmath_nroot(sock1, sock2)
_floatmath_nroot(g, args, linkErr) ==
    IF ~IsSock(args[1]) THEN R(g, None, IdDataExc(args[1]))
    ELSE NrootDivide(AddActive(g, NewNode("MATH", "DIVIDE", "", "1.0")), args, linkErr)

\* the links of a node with three inputs at the slots s1, s2, s3, just added to g1
ThreeLinks(g1, args, s1, s2, s3, linkErr) ==
    LinkStep(
        LinkStep(
            LinkStep(R(g1, <<"sock", NodeSource(Len(g1.nodes))>>, NoExc),
                     args[1], Len(g1.nodes), s1, linkErr),
            args[2], Len(g1.nodes), s2, linkErr),
        args[3], Len(g1.nodes), s3, linkErr)

\* NodeSetter._mix(data_type, sock1, sock2, sock3), data_type 'FLOAT'
_mix(g, data_type, args, linkErr) ==
    IF ~IsSock(args[1]) THEN R(g, None, IdDataExc(args[1]))
    ELSE ThreeLinks(AddActive(g, NewNode("MIX", data_type, "", "")),
                    args, 0, 2, 3, linkErr)

\* NodeSetter._floatclamp(clamp_type, sock1, sock2, sock3)
_floatclamp(g, clamp_type, args, linkErr) ==
    IF ~IsSock(args[1]) THEN R(g, None, IdDataExc(args[1]))
    ELSE ThreeLinks(AddActive(g, NewNode("CLAMP", clamp_type, "", "")),
                    args, 0, 1, 2, linkErr)

\* the operation_type each one-node math primitive passes to _floatmath
MathOperation ==
    [f \in {"add", "subtract", "mult", "div", "exp", "log", "sqrt", "invsqrt", "abs",
            "min", "max", "round", "floor", "ceil", "trunc", "modulo", "wrap", "snap",
            "sin", "cos", "tan", "asin", "acos", "atan", "hsin", "hcos", "htan",
            "rad", "deg"} |->
        CASE f = "add" -> "ADD" [] f = "subtract" -> "SUBTRACT" [] f = "mult" -> "MULTIPLY"
          [] f = "div" -> "DIVIDE" [] f = "exp" -> "POWER" [] f = "log" -> "LOGARITHM"
          [] f = "sqrt" -> "SQRT" [] f = "invsqrt" -> "INVERSE_SQRT" [] f = "abs" -> "ABSOLUTE"
          [] f = "min" -> "MINIMUM" [] f = "max" -> "MAXIMUM" [] f = "round" -> "ROUND"
          [] f = "floor" -> "FLOOR" [] f = "ceil" -> "CEIL" [] f = "trunc" -> "TRUNC"
          [] f = "modulo" -> "MODULO" [] f = "wrap" -> "WRAP" [] f = "snap" -> "SNAP"
          [] f = "sin" -> "SINE" [] f = "cos" -> "COSINE" [] f = "tan" -> "TANGENT"
          [] f = "asin" -> "ARCSINE" [] f = "acos" -> "ARCCOSINE" [] f = "atan" -> "ARCTANGENT"
          [] f = "hsin" -> "SINH" [] f = "hcos" -> "COSH" [] f = "htan" -> "TANH"
          [] f = "rad" -> "RADIANS" [] f = "deg" -> "DEGREES"]

\* floordiv: "cls._floatmath('FLOOR', _r)" on the result d of the division
FloorOf(d, linkErr) ==
    IF d.exc.cls # "" THEN d
    ELSE _floatmath(d.g, MathOperation["floor"], <<d.val>>, linkErr)

\* the body of the registry primitive f on the right number of arguments
PrimitiveBody(g, f, args, linkErr) ==
    CASE f = "power"    -> _floatmath(g, MathOperation["exp"], args, linkErr)
      [] f = "nroot"    -> _floatmath_nroot(g, args, linkErr)
      [] f = "floordiv" ->
            FloorOf(_floatmath(g, MathOperation["div"], args, linkErr), linkErr)
      [] f \in {"lerp", "mix"} -> _mix(g, "FLOAT", args, linkErr)
      [] f = "clamp"    -> _floatclamp(g, "MINMAX", args, linkErr)
      [] f = "clampr"   -> _floatclamp(g, "RANGE", args, linkErr)
      [] OTHER          -> _floatmath(g, MathOperation[f], args, linkErr)

\* calling partial(f, cls) with args: Python binds the arguments first
CallPrimitive(g, f, args, linkErr) ==
    LET arity == NodeSetterMethods[f]
    IN  IF Len(args) < arity
            THEN R(g, None, ArityExc("missing", f, arity - Len(args)))
        ELSE IF Len(args) > arity
            THEN R(g, None, ArityExc("takes", f, arity))
        ELSE PrimitiveBody(g, f, args, linkErr)

\* what exec() finds in "namespace" besides the registry primitives: "ng", and
\* the names of the builtins module that exec() adds as __builtins__ (those an
\* identifier can spell; True, False and None are keywords)
NamespaceObjects == {"ng"}

PyBuiltins ==
    {"abs", "aiter", "all", "anext", "any", "ascii", "bin", "bool", "breakpoint",
     "bytearray", "bytes", "callable", "chr", "classmethod", "compile", "complex",
     "copyright", "credits", "delattr", "dict", "dir", "divmod", "enumerate",
     "eval", "exec", "exit", "filter", "float", "format", "frozenset", "getattr",
     "globals", "hasattr", "hash", "help", "hex", "id", "input", "int",
     "isinstance", "issubclass", "iter", "len", "license", "list", "locals",
     "map", "max", "memoryview", "min", "next", "object", "oct", "open", "ord",
     "pow", "print", "property", "quit", "range", "repr", "reversed", "round",
     "set", "setattr", "slice", "sorted", "staticmethod", "str", "sum", "super",
     "tuple", "type", "vars", "zip",
     "ArithmeticError", "AssertionError", "AttributeError", "BaseException",
     "BufferError", "EOFError", "Ellipsis", "Exception", "FloatingPointError",
     "GeneratorExit", "IOError", "ImportError", "IndexError", "KeyError",
     "KeyboardInterrupt", "LookupError", "MemoryError", "NameError",
     "NotImplemented", "NotImplementedError", "OSError", "OverflowError",
     "RecursionError", "ReferenceError", "RuntimeError", "StopIteration",
     "SyntaxError", "SystemError", "SystemExit", "TypeError", "UnicodeError",
     "ValueError", "Warning", "ZeroDivisionError"}

\* the attributes of a Python number that an identifier without "_" can name:
\* of a float (isFloat) and of an int
NumberAttributes(isFloat) ==
    IF isFloat THEN {"conjugate", "fromhex", "hex", "imag", "real"}
    ELSE {"conjugate", "denominator", "imag", "numerator", "real"}

\* "value.attr" during exec(): a number has the attributes above, a tuple its
\* two methods; no object here has an attribute with a digit in its name or an
\* attribute "ng" (what a socket handle after the '.' asks for), and any other
\* attribute of an object is taken to exist
GetAttr(g, v, attr) ==
    LET missing == IF v[1] = "tuple" THEN Exc("AttributeError", "tuple object")
                   ELSE Exc("AttributeError", "other")
    IN  IF Chars(attr)[1] = "@" \/ \E i \in 1..Len(Chars(attr)) : Chars(attr)[i] \in DigitChars
        THEN R(g, None, missing)
        ELSE IF v[1] = "num"
        THEN IF attr \notin NumberAttributes(v[2][2]) THEN R(g, None, missing)
             ELSE IF attr \in {"real", "numerator"} THEN R(g, v, NoExc)
             ELSE IF attr = "imag" THEN R(g, <<"num", <<FALSE, v[2][2]>>>>, NoExc)
             ELSE IF attr = "denominator" THEN R(g, <<"num", <<TRUE, FALSE>>>>, NoExc)
             ELSE R(g, <<"object", attr>>, NoExc)
        ELSE IF v[1] = "tuple" /\ attr \notin {"count", "index"}
        THEN R(g, None, missing)
        ELSE R(g, <<"object", attr>>, NoExc)

\* env: [handles : handle -> link source, linkErr]
RECURSIVE Eval(_, _, _), EvalItems(_, _, _, _, _)

\* the values of a call's arguments or a tuple's elements, left to right, a
\* starred item spliced in; acc is the values so far
EvalItems(items, k, g, acc, env) ==
    IF k > Len(items) THEN R(g, <<"tuple", acc>>, NoExc)
    ELSE LET item == items[k]
             inner == IF Kind(item) \in {"Starred", "KwUnpack"}
                      THEN Children(item)[1] ELSE item
             r == Eval(inner, g, env)
         IN  IF r.exc.cls # "" THEN r
             ELSE IF Kind(item) = "KwUnpack"
                  \* "argument after ** must be a mapping": no value here is one
                  THEN R(r.g, None, Exc("TypeError", "other"))
             ELSE IF Kind(item) = "Starred"
                  THEN IF r.val[1] = "tuple"
                       THEN EvalItems(items, k + 1, r.g, acc \o r.val[2], env)
                       ELSE R(r.g, None, Exc("TypeError", "other"))
             ELSE EvalItems(items, k + 1, r.g, Append(acc, r.val), env)

Eval(node, g, env) ==
    LET kind == Kind(node)
    IN  CASE kind = "Sock" -> R(g, <<"sock", env.handles[Text(node)]>>, NoExc)
          [] kind = "Constant" ->
                R(g, <<"num", <<\E i \in 1..Len(Text(node)) :
                                   Chars(Text(node))[i] \in DigitChars \ {"0"},
                                "." \in Range(Chars(Text(node)))>>>>, NoExc)
          [] kind = "Name" ->
                \* the globals of exec() first, then its __builtins__
                IF Text(node) \in get_functions
                THEN R(g, <<"func", Text(node)>>, NoExc)
                ELSE IF Text(node) \in NamespaceObjects \cup PyBuiltins
                THEN R(g, <<"object", Text(node)>>, NoExc)
                ELSE R(g, None, Exc("NameError", "other"))
          [] kind = "Attribute" ->
                LET r == Eval(Children(node)[1], g, env)
                IN  IF r.exc.cls # "" THEN r
                    ELSE GetAttr(r.g, r.val, Text(node))
          [] kind = "BadName" -> R(g, None, Exc("NameError", "other"))
          [] kind = "UnaryOp" ->
                LET r == Eval(Children(node)[1], g, env)
                IN  IF r.exc.cls # "" THEN r
                    ELSE IF r.val[1] = "num" THEN r
                    ELSE R(r.g, None, Exc("TypeError", "other"))
          [] kind = "Tuple" -> EvalItems(Children(node), 1, g, <<>>, env)
          [] kind = "Call" ->
                LET fr == Eval(Children(node)[1], g, env)
                    ar == EvalItems(Tail(Children(node)), 1, fr.g, <<>>, env)
                IN  IF fr.exc.cls # "" THEN fr
                    ELSE IF ar.exc.cls # "" THEN ar
                    ELSE IF fr.val[1] # "func"
                         THEN R(ar.g, None, Exc("TypeError", "other"))
                    ELSE CallPrimitive(ar.g, fr.val[2], ar.val[2], env.linkErr)

\* the message execute_function_expression cooks from the exception of exec()
ExecMessage(exc) ==
    IF exc.cls = "TypeError"
    THEN IF exc.kind = "missing"
            THEN "Function '" \o exc.f \o "' needs " \o ToString(exc.n) \o " more Params"
         ELSE IF exc.kind = "takes"
            THEN "Function '" \o exc.f \o "' recieved Extra Params"
         ELSE "Wrong Arguments Given"
    ELSE IF exc.kind = "tuple object" THEN "Wrong use of '( , )' Synthax"
    ELSE "Error on Execution"

(***************************************************************************)
(* State                                                                   *)
(***************************************************************************)
VARIABLES
    user_mathexp,     \* the Expression property
    implicit_mult,    \* the Implicit Multiplication property
    auto_symbols,     \* the Recognize Irrationals property
    error_message,    \* the three diagnostic properties
    debug_sanatized,
    debug_fctexp,
    elem,             \* self.elemTotal, elemFct, elemConst, elemVar, elemCmplx
    inputs,           \* the node tree, see above
    nodes,
    links,
    active,
    uid,              \* the number of interface sockets made so far ("Socket_<n>")
    stage,            \* where the last run of apply_expression ended
    result,           \* the value of the expression statement exec() last ran
    passes,           \* the property updates since init()
    call,             \* a call of one of the module's functions: [f, args]
    ret,              \* what the call returned, None before it returns
    trace             \* the calls of apply_expression the last property update
                      \* made: <<"enter", expression>> and <<"return", stage>>

vars == << user_mathexp, implicit_mult, auto_symbols, error_message, debug_sanatized,
           debug_fctexp, elem, inputs, nodes, links, active, uid, stage, result, passes,
           call, ret, trace >>

\* every enumeration of the finite set S: the orders a loop over a Python set can take
Perms(S) ==
    {f \in [1..Cardinality(S) -> S] : \A i, j \in 1..Cardinality(S) : i # j => f[i] # f[j]}

Names(ins) == [k \in 1..Len(ins) |-> ins[k].name]

(***************************************************************************)
(* NodeSetter.execute_function_expression                                  *)
(***************************************************************************)
\* LastNode without the fallback of a pass that made no node
LastNode_ActiveOnly(st, g) ==
    [ok |-> g.active # 0, src |-> NodeSource(g.active)]

\* "last = node_tree.nodes.active" and its fallback when that is None:
\* [ok, src], src the socket outputs[0] of the node found, ok FALSE when last
\* stays None (last.location then raises)
LastNode(st, g) ==
    LET values == {k \in 1..Len(g.nodes) : g.nodes[k].type = "VALUE"}
    IN  IF g.active # 0 THEN [ok |-> TRUE, src |-> NodeSource(g.active)]
        ELSE IF st.elem.elemVar # {}
             THEN [ok |-> TRUE, src |-> InSource(st.inputs[1].id)]
        ELSE IF st.elem.elemConst # {} /\ values # {}
             THEN [ok |-> TRUE,
                   src |-> NodeSource(CHOOSE k \in values : \A j \in values : k <= j)]
        ELSE [ok |-> FALSE, src |-> OutSocket]

\* the final link: the output is linked to the socket found as last, or the
\* pass ends with "Error on Final Link"
LinkOutput(r, last) ==
    IF ~last.ok
    THEN [g |-> r.g, err |-> "Error on Final Link", at |-> "link", val |-> r.val]
    ELSE [g |-> [r.g EXCEPT !.links = link_new(@, last.src, OutSocket)],
          err |-> "", at |-> "", val |-> r.val]

\* AfterExec with the final link outside the error handling: the output is
\* linked to the active node whatever exec() did
AfterExec_LinkAlways(st, r) ==
    [g   |-> IF r.g.active = 0 THEN r.g
             ELSE [r.g EXCEPT !.links = link_new(@, NodeSource(r.g.active), OutSocket)],
     err |-> IF r.exc.cls # "" THEN ExecMessage(r.exc) ELSE "",
     at  |-> IF r.exc.cls # "" THEN "exec" ELSE "",
     val |-> IF r.exc.cls # "" THEN None ELSE r.val]

\* after exec() gave r: an exception ends the call with its message (the
\* nodes made so far stay), otherwise the final link follows
AfterExec(st, r) ==
    IF r.exc.cls # ""
    THEN [g |-> r.g, err |-> ExecMessage(r.exc), at |-> "exec", val |-> None]
    ELSE LinkOutput(r, LastNode(st, r.g))

\* exec(api_expression, namespace): a text Python cannot parse is an exception
\* before anything runs
ExecParsed(st, tree, g, env) ==
    IF ~tree.ok THEN [g |-> g, err |-> "Error on Execution", at |-> "exec", val |-> None]
    ELSE AfterExec(st, Eval(tree.node, g, env))

\* [g, err, at, val] for one behaviour of the boiler's link_sockets; st holds the
\* elem sets, g the tree, keys/vals the dictionary {**varsapi, **constapi},
\* handles what each handle evaluates to
execute_function_expression(st, expression, g, keys, vals, handles, linkErr) ==
    ExecParsed(st, ast_parse(replace_exact_tokens(Chars(expression), keys, vals)), g,
               [handles |-> handles, linkErr |-> linkErr])

(***************************************************************************)
(* EXTRANODES_NG_mathexpression.apply_expression                           *)
(***************************************************************************)
\* float(const) raises ValueError for a token with two decimal points
FloatFails(const) == Cardinality({i \in 1..Len(const) : Chars(const)[i] = "."}) > 1

\* repr(float(const))
FloatRepr(const) ==
    IF "." \in Range(Chars(const)) THEN Str(NumberRepr(Chars(const)))
    ELSE Str(NumberRepr(Chars(const))) \o ".0"

\* remove_socket(ng, idx, in_out='INPUT'): the socket at idx (from 0) goes
RemoveAt(seq, idx) ==
    [k \in 1..(Len(seq) - 1) |-> IF k <= idx THEN seq[k] ELSE seq[k + 1]]

RECURSIVE RemoveIndices(_, _)
RemoveIndices(seq, idxs) ==
    IF idxs = <<>> THEN seq
    ELSE RemoveIndices(RemoveAt(seq, Head(idxs)), Tail(idxs))

Reversed(seq) == [k \in 1..Len(seq) |-> seq[Len(seq) + 1 - k]]

\* RemoveUnused that removes nothing
RemoveUnused_None(ins, elemVar) == ins

\* RemoveUnused without reversed(): each removal shifts the indices after it
RemoveUnused_Forward(ins, elemVar) ==
    LET RECURSIVE Collect(_)
        Collect(k) == IF k > Len(ins) THEN <<>>
                      ELSE (IF ins[k].name \notin elemVar THEN <<k - 1>> ELSE <<>>)
                             \o Collect(k + 1)
    IN  RemoveIndices(ins, Collect(1))

\* "Remove unused vars sockets": the indices of the sockets whose name is no
\* variable, removed from the last to the first
RemoveUnused(ins, elemVar) ==
    LET RECURSIVE Collect(_)
        Collect(k) == IF k > Len(ins) THEN <<>>
                      ELSE (IF ins[k].name \notin elemVar THEN <<k - 1>> ELSE <<>>)
                             \o Collect(k + 1)
        idx_to_del == Collect(1)
    IN  RemoveIndices(ins, Reversed(idx_to_del))

\* "Create new sockets depending on vars", for one order of the loop over elemVar
CreateSockets(ins, order, from) ==
    ins \o [k \in 1..Len(order) |-> [id |-> from + k, name |-> order[k]]]

\* ClearedLinks that keeps the links of the removed nodes
ClearedLinks_Keep(ls) == ls

\* "Clear node tree": every interior node goes, with the links that touch it
ClearedLinks(ls) == {l \in ls : l[1][1] = "in" /\ l[2] = OutSocket}

\* get_socket_python_api's string for Group Input's output idx / a value node
InHandle(idx) == "@in" \o ToString(idx)
NodeHandle(name) == "@node:" \o name

\* the index in constOrder of the first constant float() refuses, 0 if none
FirstFailing(constOrder) ==
    LET failing == {k \in 1..Len(constOrder) : FloatFails(constOrder[k])}
    IN  IF failing = {} THEN 0 ELSE CHOOSE k \in failing : \A j \in failing : k <= j

\* "Create new nodes for constants": one VALUE node per constant in the loop's
\* order; the node of a constant float() refuses stays as nodes.new made it,
\* and the loop ends there
ValueNodes(constOrder, stop) ==
    [k \in 1..(IF stop = 0 THEN Len(constOrder) ELSE stop) |->
        IF k = stop THEN NewNode("VALUE", "", "Value", "0.0")
        ELSE NewNode("VALUE", "", constOrder[k], FloatRepr(constOrder[k]))]

\* the links left once the interior nodes and the sockets not in ins are gone
KeptLinks(ls, ins) ==
    {l \in ClearedLinks(ls) : l[1][2] \in {ins[k].id : k \in 1..Len(ins)}}

\* the node and its tree after "Clear node tree", the socket loops and the
\* constants' loop; ins is the interface's inputs after the socket loops
Mutated(st, sr, ins, made, constOrder) ==
    [st EXCEPT !.debug_sanatized = sr.expression, !.elem = sr.elem,
               !.inputs = ins, !.uid = st.uid + made,
               !.nodes = ValueNodes(constOrder, FirstFailing(constOrder)),
               !.links = KeptLinks(st.links, ins), !.active = 0]

\* vareq and consteq, as the keys and the values of {**vareq, **consteq}, and
\* what each handle evaluates to in the namespace of exec()
ApiKeys(ins, constOrder) ==
    [k \in 1..Len(ins) |-> Chars(ins[k].name)]
      \o [k \in 1..Len(constOrder) |-> Chars(constOrder[k])]
ApiVals(ins, constOrder) ==
    [k \in 1..Len(ins) |-> <<InHandle(k - 1)>>]
      \o [k \in 1..Len(constOrder) |-> <<NodeHandle(constOrder[k])>>]
ApiHandles(ins, constOrder) ==
    [h \in {InHandle(k - 1) : k \in 1..Len(ins)}
             \cup {NodeHandle(constOrder[k]) : k \in 1..Len(constOrder)} |->
        IF \E k \in 1..Len(ins) : h = InHandle(k - 1)
        THEN InSource(ins[CHOOSE k \in 1..Len(ins) : h = InHandle(k - 1)].id)
        ELSE NodeSource(CHOOSE k \in 1..Len(constOrder) : h = NodeHandle(constOrder[k]))]

\* the end of the pass once execute_function_expression returned ex
Executed(s1, fctexp, ex) ==
    [s1 EXCEPT !.debug_fctexp = fctexp, !.error_message = ex.err,
               !.nodes = ex.g.nodes, !.links = ex.g.links, !.active = ex.g.active,
               !.stage = IF ex.err = "" THEN "applied" ELSE ex.at \o "_failed",
               !.result = ex.val]

\* apply_expression from "Give it a refresh signal" on: s1 is the node after
\* the sockets and the constants were made, tr the transformer's result
Compile(s1, constOrder, tr, linkErr) ==
    IF FirstFailing(constOrder) # 0 THEN [s1 EXCEPT !.stage = "crashed"]
    ELSE IF s1.elem.elemVar = {} /\ s1.elem.elemConst = {}
         THEN [s1 EXCEPT !.stage = "no_elements"]
    ELSE IF tr.err # ""
         THEN [s1 EXCEPT !.error_message = tr.err, !.debug_fctexp = "Failed",
                         !.stage = "parse_failed"]
    ELSE Executed(s1, tr.fctexp,
                  execute_function_expression(
                      s1, tr.fctexp,
                      [nodes |-> s1.nodes, links |-> s1.links, active |-> 0],
                      ApiKeys(s1.inputs, constOrder), ApiVals(s1.inputs, constOrder),
                      ApiHandles(s1.inputs, constOrder), linkErr))

\* The part of apply_expression after a successful sanatize_expression, for one
\* order of each loop over a set and one behaviour of link_sockets.
\* st: the state with the diagnostics reset; sr: the sanitizer's result.
Synthesize(st, sr, varOrder, constOrder, fnChoice, linkErr) ==
    Compile(Mutated(st, sr,
                    RemoveUnused(CreateSockets(st.inputs, varOrder, st.uid),
                                 sr.elem.elemVar),
                    Len(varOrder), constOrder),
            constOrder, fnChoice, linkErr)

\* SanitizeFailed with "Clear node tree" moved before the sanitizer
SanitizeFailed_Cleared(st, sr) ==
    [st EXCEPT !.error_message = sr.err, !.debug_sanatized = "Failed",
               !.elem = sr.elem, !.stage = "sanitize_failed",
               !.nodes = <<>>, !.links = ClearedLinks(@), !.active = 0]

\* "if (type(rval) is Exception)": the pass ends at the sanitizer's error sr
SanitizeFailed(st, sr) ==
    [st EXCEPT !.error_message = sr.err, !.debug_sanatized = "Failed",
               !.elem = sr.elem, !.stage = "sanitize_failed"]

\* "Reset error message"
ResetMessages(st0) ==
    [st0 EXCEPT !.error_message = "", !.debug_sanatized = "", !.debug_fctexp = "",
                !.result = None]

\* apply_expression from "First we make sure the user expression is correct"
\* on; st has the diagnostics reset
ApplyPass(st) ==
    UNION {
      IF sr.err # ""
      THEN {SanitizeFailed(st, sr)}
      ELSE {Synthesize(st, sr, varOrder, constOrder, tr, linkErr) :
               varOrder \in Perms(sr.elem.elemVar \ Range(Names(st.inputs))),
               constOrder \in Perms(sr.elem.elemConst),
               tr \in transform_expression(sr.expression),
               linkErr \in {"AttributeError", "TypeError"}}
      : sr \in sanatize_expression(Chars(st.user_mathexp), st.implicit_mult)}

\* the macros of IRRATIONALS in the dictionary's order
MacroKeys == << Chars("Pi"), Chars("eNum"), Chars("Gold") >>

\* replace_exact_tokens(self.user_mathexp, {v['name']: v['unicode'] ...}) for
\* the macros found in the text
MacrosReplaced(text, mached) ==
    LET idx == SelectSeq(<<1, 2, 3>>, LAMBDA k : MacroKeys[k] \in Range(mached))
    IN  replace_exact_tokens(
            text,
            [k \in 1..Len(idx) |-> MacroKeys[idx[k]]],
            [k \in 1..Len(idx) |-> Chars(IRRATIONALS[Str(MacroKeys[idx[k]])].unicode)])

RECURSIVE apply_expression(_)

\* ReplaceMacros if the assignment to user_mathexp ran no update callback
ReplaceMacros_NoCallback(st, mached) ==
    IF st.auto_symbols /\ mached # <<>>
    THEN {[st EXCEPT !.user_mathexp = Str(MacrosReplaced(Chars(st.user_mathexp), mached))]}
    ELSE ApplyPass(st)

\* ReplaceMacros if "Reset error message" ran again in the outer call after the
\* assignment to user_mathexp returned
ReplaceMacros_ResetAfter(st, mached) ==
    IF st.auto_symbols /\ mached # <<>>
    THEN {ResetMessages(s) :
             s \in apply_expression(
                      [st EXCEPT !.user_mathexp =
                                     Str(MacrosReplaced(Chars(st.user_mathexp), mached))])}
    ELSE ApplyPass(st)

\* "Support for automatically replacing uppercase and lowercase...": with
\* auto_symbols on and a macro in the expression, the assignment to
\* user_mathexp runs the property's update callback, that is apply_expression
\* on the rewritten text, before the outer call returns
ReplaceMacros(st, mached) ==
    IF st.auto_symbols /\ mached # <<>>
    THEN apply_expression(
             [st EXCEPT !.user_mathexp = Str(MacrosReplaced(Chars(st.user_mathexp), mached))])
    ELSE ApplyPass(st)

\* apply_expression: the states the node can be in when it returns
apply_expression(st0) ==
    {[st EXCEPT !.trace = Append(@, <<"return", st.stage>>)] :
        st \in ReplaceMacros(
                  ResetMessages([st0 EXCEPT
                                    !.trace = Append(@, <<"enter", st0.user_mathexp>>)]),
                  match_exact_tokens(Chars(st0.user_mathexp), MacroKeys))}

(***************************************************************************)
(* The expressions the user types                                          *)
(***************************************************************************)
Expressions ==
    { "a + b + c", "a+c", "a", "x", "2", "x*2+3",
      "a-b", "a*b+c", "a**b", "a/b%c", "a//b",
      "-a", "a*-b",
      "sqrt(a)+b", "nroot(a,b)", "floordiv(a,b)", "wrap(a,b,c)", "lerp(a,b,2)",
      "clamp(a,b,c)",
      "add(a,b,c)", "sqrt()", "sqrt()+a", "add(a*b)", "wrap(a,b)",
      "foo(add(a,b,c))", "add(a,b,c)+sin",
      "a+b,c", "(a,b)+c", "a+(b,c)",
      "foo(a)", "a+", "(a+b",
      "a & b", "a.b", "a+2.50", "Pi*a",
      "foo(x)", "x & y", "sin+x", "π*a", "1.2.3+a", "πa", "a,b",
      "print.x2+c", "", "()"
    }

(***************************************************************************)
(* Bounds                                                                  *)
(***************************************************************************)
\* the property updates the user makes after init()
MaxPasses == 2

(***************************************************************************)
(* Specification                                                           *)
(***************************************************************************)
State ==
    [user_mathexp |-> user_mathexp, implicit_mult |-> implicit_mult,
     auto_symbols |-> auto_symbols, error_message |-> error_message,
     debug_sanatized |-> debug_sanatized, debug_fctexp |-> debug_fctexp,
     elem |-> elem, inputs |-> inputs, nodes |-> nodes, links |-> links,
     active |-> active, uid |-> uid, stage |-> stage, result |-> result,
     trace |-> trace]

Becomes(st) ==
    /\ passes' = passes + 1
    /\ user_mathexp' = st.user_mathexp
    /\ implicit_mult' = st.implicit_mult
    /\ auto_symbols' = st.auto_symbols
    /\ error_message' = st.error_message
    /\ debug_sanatized' = st.debug_sanatized
    /\ debug_fctexp' = st.debug_fctexp
    /\ elem' = st.elem
    /\ inputs' = st.inputs
    /\ nodes' = st.nodes
    /\ links' = st.links
    /\ active' = st.active
    /\ uid' = st.uid
    /\ stage' = st.stage
    /\ result' = st.result
    /\ trace' = st.trace
    /\ UNCHANGED << call, ret >>

NoElem == [elemTotal |-> {}, elemFct |-> {}, elemConst |-> {}, elemVar |-> {},
           elemCmplx |-> {}]

\* init(): a copy of the node group with the one output "Result", then
\* "self.user_mathexp = self.user_mathexp" compiles the default expression
Init ==
    \E st \in apply_expression(
                 [user_mathexp |-> "a + b + c", implicit_mult |-> FALSE,
                  auto_symbols |-> FALSE, error_message |-> "", debug_sanatized |-> "",
                  debug_fctexp |-> "", elem |-> NoElem, inputs |-> <<>>, nodes |-> <<>>,
                  links |-> {}, active |-> 0, uid |-> 0, stage |-> "init", result |-> None,
                  trace |-> <<>>]) :
        /\ user_mathexp = st.user_mathexp
        /\ implicit_mult = st.implicit_mult
        /\ auto_symbols = st.auto_symbols
        /\ error_message = st.error_message
        /\ debug_sanatized = st.debug_sanatized
        /\ debug_fctexp = st.debug_fctexp
        /\ elem = st.elem
        /\ inputs = st.inputs
        /\ nodes = st.nodes
        /\ links = st.links
        /\ active = st.active
        /\ uid = st.uid
        /\ stage = st.stage
        /\ result = st.result
        /\ trace = st.trace
        /\ passes = 0
        /\ call = None
        /\ ret = None

\* the user edits the Expression property: update_user_mathexp
SetExpression ==
    /\ passes < MaxPasses
    /\ \E e \in Expressions :
          \E st \in apply_expression([State EXCEPT !.user_mathexp = e, !.trace = <<>>]) : Becomes(st)

\* the user switches Implicit Multiplication: update_user_mathexp
SetImplicitMult ==
    /\ passes < MaxPasses
    /\ \E st \in apply_expression([State EXCEPT !.implicit_mult = ~implicit_mult,
                                                   !.trace = <<>>]) :
          Becomes(st)

\* the user switches Recognize Irrationals: update_user_mathexp
SetAutoSymbols ==
    /\ passes < MaxPasses
    /\ \E st \in apply_expression([State EXCEPT !.auto_symbols = ~auto_symbols,
                                                   !.trace = <<>>]) :
          Becomes(st)

Next == SetExpression \/ SetImplicitMult \/ SetAutoSymbols

Spec == Init /\ [][Next]_vars

(***************************************************************************)
(* Lowering alone: sanatize_expression, then transform_expression          *)
(***************************************************************************)
BinaryOperators == {"+", "-", "*", "/", "**", "%", "//"}

LongExample == "x*2 + (3-4/5)/3 + (x+y)**2"

\* two operators on a, b, c: bare, and with either pair in parentheses
LowerInputs ==
    {"a" \o o1 \o "b" \o o2 \o "c" : o1, o2 \in BinaryOperators}
      \cup {"(a" \o o1 \o "b)" \o o2 \o "c" : o1, o2 \in BinaryOperators}
      \cup {"a" \o o1 \o "(b" \o o2 \o "c)" : o1, o2 \in BinaryOperators}
      \cup {LongExample}

\* the expression is typed into a node whose tree is still empty
InitLower ==
    /\ user_mathexp \in LowerInputs
    /\ implicit_mult = FALSE
    /\ auto_symbols = FALSE
    /\ error_message = ""
    /\ debug_sanatized = ""
    /\ debug_fctexp = ""
    /\ elem = NoElem
    /\ inputs = <<>>
    /\ nodes = <<>>
    /\ links = {}
    /\ active = 0
    /\ uid = 0
    /\ stage = "typed"
    /\ result = None
    /\ passes = 0
    /\ call = None
    /\ ret = None
    /\ trace = <<>>

\* sanatize_expression and transform_expression on the text, as apply_expression
\* calls them, with the diagnostics it writes
Lower ==
    /\ stage = "typed"
    /\ \E sr \in sanatize_expression(Chars(user_mathexp), implicit_mult) :
          \E tr \in transform_expression(sr.expression) :
              /\ elem' = sr.elem
              /\ debug_sanatized' = IF sr.err # "" THEN "Failed" ELSE sr.expression
              /\ debug_fctexp' = IF sr.err # "" THEN ""
                                 ELSE IF tr.err # "" THEN "Failed" ELSE tr.fctexp
              /\ error_message' = IF sr.err # "" THEN sr.err ELSE tr.err
    /\ stage' = "lowered"
    /\ UNCHANGED << user_mathexp, implicit_mult, auto_symbols, inputs, nodes, links,
                    active, uid, result, passes, call, ret, trace >>

SpecLower == InitLower /\ [][Lower]_vars

(***************************************************************************)
(* The module's functions called on their own                              *)
(***************************************************************************)
\* the longest text, in pieces, given to sanatize_expression
MaxPieces == 3

\* the longest string, in characters, given to replace_exact_tokens and to
\* replace_superscript_exponents
MaxChars == 4

\* the texts of at most n pieces
RECURSIVE Texts(_, _)
Texts(pieces, n) ==
    IF n = 0 THEN {""}
    ELSE Texts(pieces, n - 1) \cup {s \o p : s \in Texts(pieces, n - 1), p \in pieces}

\* expression: what the user can type
SanitizeInputs ==
    Texts({"a", "sin", "2", ".", "+", "(", ")", "&", "²", "π", " "}, MaxPieces)
      \cup {"x & y", "sin+x", "sin(x)+x", "foo(x)", "2a²b", "(a+b)²", "a²³+b",
            "π*a", "2π", "πa", "2(a+b)", "2ab+sin(2a)", "a+2&",
               "sin(2a)+b+2"}

\* string, tokens_mapping: a constant and a variable given their handles, two
\* variables exchanged, and a number next to a number that starts with it
TokenInputs ==
    (Texts({"x", "y", "2", "5", ".", "+"}, MaxChars)
       \cup {"12+2", "1.5+5", "5.2+5", "exp(x, 2)", "x+exp", "2x+x2"})
    \X { [keys |-> <<Chars("2"), Chars("x")>>, vals |-> << <<"@2">>, <<"@x">> >>],
         [keys |-> <<Chars("x"), Chars("y")>>, vals |-> <<Chars("y"), Chars("x")>>],
         [keys |-> <<Chars("5"), Chars("2.5")>>, vals |-> << <<"@5">>, <<"@2.5">> >>] }

\* expr
SuperscriptInputs ==
    Texts({"a", "2", "²", "³", "(", ")", "+"}, MaxChars)
      \cup {"2a²b", "(a+b)²", "a²³+b"}

\* a node that has compiled nothing; no function has been called
InitCalls ==
    /\ user_mathexp = ""
    /\ implicit_mult = FALSE
    /\ auto_symbols = FALSE
    /\ error_message = ""
    /\ debug_sanatized = ""
    /\ debug_fctexp = ""
    /\ elem = NoElem
    /\ inputs = <<>>
    /\ nodes = <<>>
    /\ links = {}
    /\ active = 0
    /\ uid = 0
    /\ stage = "init"
    /\ result = None
    /\ passes = 0
    /\ call = None
    /\ ret = None
    /\ trace = <<>>

\* the function f is called with args and returns value
Returns(f, args, value) ==
    /\ ret = None
    /\ call' = [f |-> f, args |-> args]
    /\ ret' = <<"ret", value>>
    /\ UNCHANGED << user_mathexp, implicit_mult, auto_symbols, error_message,
                    debug_sanatized, debug_fctexp, elem, inputs, nodes, links, active,
                    uid, stage, result, passes, trace >>

\* self.sanatize_expression(expression) with self.implicit_mult as given
CallSanatize ==
    \E e \in SanitizeInputs, im \in BOOLEAN :
        \E sr \in sanatize_expression(Chars(e), im) :
            Returns("sanatize_expression", <<e, im>>, sr)

\* replace_exact_tokens(string, tokens_mapping)
CallReplaceTokens ==
    \E t \in TokenInputs :
        Returns("replace_exact_tokens", <<t[1], t[2].keys, t[2].vals>>,
                replace_exact_tokens(Chars(t[1]), t[2].keys, t[2].vals))

\* replace_superscript_exponents(expr)
CallReplaceSuperscripts ==
    \E e \in SuperscriptInputs :
        Returns("replace_superscript_exponents", <<e>>,
                Str(replace_superscript_exponents(Chars(e))))

NextCalls == CallSanatize \/ CallReplaceTokens \/ CallReplaceSuperscripts

SpecCalls == InitCalls /\ [][NextCalls]_vars

\* the binding strength of a binary operator in Python's grammar
Binds(op) == IF op = "**" THEN 3 ELSE IF op \in {"*", "/", "%", "//"} THEN 2 ELSE 1

\* the primitive the lowering names for a binary operator
Primitive(op) ==
    CASE op = "+" -> "add" [] op = "-" -> "subtract" [] op = "*" -> "mult"
      [] op = "/" -> "div" [] op = "**" -> "exp" [] op = "%" -> "modulo"
      [] op = "//" -> "floordiv"

CallOf(op, left, right) == Primitive(op) \o "(" \o left \o ", " \o right \o ")"

\* in "a o1 b o2 c" the right operator applies first
RightFirst(o1, o2) == Binds(o2) > Binds(o1) \/ (o1 = "**" /\ o2 = "**")

LeftGrouped(o1, o2) == CallOf(o2, CallOf(o1, "a", "b"), "c")
RightGrouped(o1, o2) == CallOf(o1, "a", CallOf(o2, "b", "c"))

PassEnds(stg) == passes' = passes + 1 /\ stage' = stg

GraphUnchanged ==
    /\ nodes' = nodes
    /\ links' = links
    /\ inputs' = inputs
    /\ active' = active
    /\ uid' = uid

InteriorTypes == {"MATH", "MIX", "CLAMP"}

\* C1 (as amended): a pass the sanitizer rejects leaves the node tree exactly
\* as it was (nodes, links, input sockets, active node); error_message gets the
\* error text, debug_sanatized becomes 'Failed' and debug_fctexp is reset to ''.
C1_SanitizeErrorKeepsGraph ==
    [][PassEnds("sanitize_failed") =>
          /\ GraphUnchanged
          /\ error_message' # ""
          /\ debug_sanatized' = "Failed"
          /\ debug_fctexp' = ""]_vars

C1_Witness ==
    /\ stage = "sanitize_failed"
    /\ passes > 0
    /\ user_mathexp = "a & b"
    /\ nodes # <<>>
    /\ links # {}

\* C1 as the claim states it: besides the unchanged tree, only error_message
\* and debug_sanatized change, so debug_fctexp keeps its value.
C1_OnlyTwoFieldsChange ==
    [][PassEnds("sanitize_failed") =>
          /\ GraphUnchanged
          /\ error_message' # ""
          /\ debug_sanatized' = "Failed"
          /\ debug_fctexp' = debug_fctexp]_vars

\* C2 (as amended): when transform_expression fails, the tree has already been
\* changed: every interior node of the previous tree is gone with its links,
\* one value node per constant of the new expression exists, no node is active
\* (and the input sockets are reconciled as in every pass the sanitizer
\* accepts); debug_fctexp is 'Failed' and error_message holds the
\* transformer's error.
C2_ParseErrorAfterMutation ==
    [][PassEnds("parse_failed") =>
          /\ \A k \in 1..Len(nodes') : nodes'[k].type = "VALUE"
          /\ {nodes'[k].name : k \in 1..Len(nodes')} = elem'.elemConst
          /\ Len(nodes') = Cardinality(elem'.elemConst)
          /\ links' \subseteq links
          /\ \A l \in links' : l[1][1] = "in" /\ l[2] = OutSocket
          /\ active' = 0
          /\ debug_fctexp' = "Failed"
          /\ \/ error_message' = "Math Expression Not Recognized"
             \/ \E f \in elem'.elemTotal :
                    error_message' = "'" \o f \o "' Function Not Recognized"]_vars

C2_Witness ==
    /\ stage = "parse_failed"
    /\ passes > 0
    /\ user_mathexp = "foo(a)"
    /\ nodes = <<>>
    /\ Range(Names(inputs)) = {"foo", "a"}

\* C2 as the claim states it: a pass that fails in transform_expression leaves
\* the tree identical to what it was before the pass.
C2_ParseErrorKeepsGraph ==
    [][PassEnds("parse_failed") =>
          /\ nodes' = nodes
          /\ links' = links
          /\ inputs' = inputs]_vars

\* C3 (as amended): when execute_function_expression returns an error, nothing
\* is rolled back: the nodes the primitives made before the failure stay beside
\* the value nodes of the constants, but no node is linked to the output
\* socket, exec() has produced no value and error_message is set.
C3_ExecErrorNoOutputLink ==
    (stage = "exec_failed") =>
        /\ \A l \in links : l[2] = OutSocket => l[1][1] = "in"
        /\ {nodes[k].name : k \in {j \in 1..Len(nodes) : nodes[j].type = "VALUE"}}
              = elem.elemConst
        /\ error_message # ""
        /\ result = None

C3_Witness ==
    /\ stage = "exec_failed"
    /\ user_mathexp = "add(a*b)"
    /\ error_message = "Function 'add' needs 1 more Params"
    /\ \E k \in 1..Len(nodes) : nodes[k].type = "MATH" /\ nodes[k].op = "MULTIPLY"

\* C3 as the claim states it: after a failure in execute_function_expression no
\* math, mix or clamp node remains in the tree.
C3_ExecErrorNoFragment ==
    (stage = "exec_failed") =>
        \A k \in 1..Len(nodes) : nodes[k].type \notin InteriorTypes

\* C4: at the end of every pass the sanitizer accepted, the names of the input
\* sockets are exactly the variables of the expression, one socket each
\* ('a+c' after the default ends with a and c; '2' ends with no socket).
C4_SocketsAreVariables ==
    /\ (stage # "sanitize_failed") =>
          /\ Range(Names(inputs)) = elem.elemVar
          /\ Len(inputs) = Cardinality(elem.elemVar)
    /\ (user_mathexp = "a+c") => Range(Names(inputs)) = {"a", "c"}
    /\ (user_mathexp = "2") => inputs = <<>>

C4_Witness ==
    /\ passes = 2
    /\ user_mathexp = "a+c"
    /\ stage = "applied"
    /\ Range(Names(inputs)) = {"a", "c"}
    /\ \E k \in 1..Len(inputs) : inputs[k].name = "c" /\ inputs[k].id > 3

\* C5: a socket whose name is still a variable keeps its identifier and its
\* place among the kept sockets; a socket is removed only if its name is no
\* variable any more, and a socket is made only for a name that had none.
C5_KeptSocketsStay ==
    [][(passes' = passes + 1 /\ stage' # "sanitize_failed") =>
          LET StillVariable(s) == s.name \in elem'.elemVar
              WasThere(s) == \E k \in 1..Len(inputs) : inputs[k] = s
          IN  /\ SelectSeq(inputs', WasThere) = SelectSeq(inputs, StillVariable)
              /\ \A k \in 1..Len(inputs') :
                    ~WasThere(inputs'[k]) =>
                        /\ inputs'[k].id > uid
                        /\ inputs'[k].name \notin Range(Names(inputs))]_vars

C5_Witness ==
    /\ passes > 0
    /\ stage # "sanitize_failed"
    /\ \E k, j \in 1..Len(inputs) : inputs[k].id <= 3 /\ inputs[j].id > 3
    /\ Len(inputs) = 2
    /\ uid = 4

\* C6: a pass on one bare variable ends applied with no interior node and the
\* variable's socket linked to the output; a pass on one bare constant ends
\* applied with one value node, linked to the output; whatever the tree held
\* before the pass.
C6_BareToken ==
    /\ (stage # "sanitize_failed" /\ elem.elemTotal = {debug_sanatized}
          /\ elem.elemVar = {debug_sanatized}) =>
          /\ stage = "applied"
          /\ nodes = <<>>
          /\ Len(inputs) = 1
          /\ inputs[1].name = debug_sanatized
          /\ {l \in links : l[2] = OutSocket} = {<<InSource(inputs[1].id), OutSocket>>}
    /\ (stage # "sanitize_failed" /\ elem.elemTotal = {debug_sanatized}
          /\ elem.elemConst = {debug_sanatized}) =>
          /\ stage = "applied"
          /\ Len(nodes) = 1
          /\ nodes[1].type = "VALUE"
          /\ links = {<<NodeSource(1), OutSocket>>}

C6_Witness ==
    /\ passes = 2
    /\ user_mathexp \in {"x", "2"}
    /\ stage = "applied"
    /\ active = 0
    /\ Cardinality(links) = 1

\* C7 as the claim states it: after a pass without error that made an interior
\* node, the active node is the last node made, its output 0 is linked to the
\* output socket, and that output is the value of the whole expression.
C7_OutputIsRoot ==
    (stage = "applied" /\ \E k \in 1..Len(nodes) : nodes[k].type \in InteriorTypes) =>
        /\ active = Len(nodes)
        /\ <<NodeSource(active), OutSocket>> \in links
        /\ result[1] = "sock"
        /\ result[2] = NodeSource(active)

\* the node kinds of the tree under n are all among Call, Name and Constant
RECURSIVE OnlyCallNameConstant(_)
OnlyCallNameConstant(n) ==
    /\ Kind(n) \in {"Call", "Name", "Constant"}
    /\ \A k \in 1..Len(Children(n)) : OnlyCallNameConstant(Children(n)[k])

\* C9 as the claim states it: the call form transform_expression returns holds
\* only Call, Name and Constant nodes.
C9_OnlyCalls ==
    (stage \in {"applied", "exec_failed", "link_failed"} /\ debug_fctexp # "") =>
        OnlyCallNameConstant(ast_parse(Chars(debug_fctexp)).node)

\* expressions that call a primitive with the wrong number of arguments
ArityCases ==
    { [text |-> "add(a,b,c)", f |-> "add"],
      [text |-> "sqrt()", f |-> "sqrt"],
      [text |-> "sqrt()+a", f |-> "sqrt"],
      [text |-> "add(a*b)", f |-> "add"],
      [text |-> "wrap(a,b)", f |-> "wrap"],
      [text |-> "foo(add(a,b,c))", f |-> "add"],
      [text |-> "add(a,b,c)+sin", f |-> "add"] }

\* C10 as the claim states it: a pass on an expression that calls a primitive
\* with the wrong number of arguments fails with a message that names the
\* function and the number of arguments it takes.
C10_ArityError ==
    \A c \in ArityCases :
        (passes > 0 /\ user_mathexp = c.text) =>
            /\ stage = "exec_failed"
            /\ Contains(Chars(error_message), Chars("'" \o c.f \o "'"))
            /\ Contains(Chars(error_message), Chars(ToString(NodeSetterMethods[c.f])))

\* the names the calls of the tree under n call
RECURSIVE CalledNames(_)
CalledNames(n) ==
    (IF Kind(n) = "Call" /\ Kind(Children(n)[1]) = "Name"
     THEN {Text(Children(n)[1])} ELSE {})
      \cup UNION {CalledNames(Children(n)[k]) : k \in 1..Len(Children(n))}

C12_UnauthorizedRejected ==
    [][(passes' = passes + 1
          /\ \E i \in 1..Len(Normalized(Chars(user_mathexp'))) :
                 Normalized(Chars(user_mathexp'))[i] \notin authorized_symbols) =>
          LET expression == Normalized(Chars(user_mathexp'))
              bad == {i \in 1..Len(expression) : expression[i] \notin authorized_symbols}
              first == CHOOSE i \in bad : \A j \in bad : i <= j
          IN  /\ stage' = "sanitize_failed"
              /\ GraphUnchanged
              /\ \/ error_message' = "Unrecorgnized Symbol '" \o expression[first] \o "'"
                 \/ \E t \in SplitTokens(expression, <<>>) :
                       /\ \E i \in 1..Len(t) : Chars(t)[i] \notin authorized_symbols
                       /\ error_message' = "Unrecorgnized Variable '" \o t \o "'"
              /\ user_mathexp' = "x & y" =>
                    error_message' = "Unrecorgnized Variable 'x&y'"
              /\ user_mathexp' = "πa" =>
                    error_message' = "Unrecorgnized Symbol 'π'"]_vars

C12_Witness ==
    /\ user_mathexp = "x & y"
    /\ stage = "sanitize_failed"
    /\ error_message = "Unrecorgnized Variable 'x&y'"
    /\ passes > 0
    /\ nodes # <<>>

\* C12 as the claim states it: a pass on an expression that holds '&', a
\* character outside the authorized set, fails in the sanitizer with
\* "Unrecorgnized Symbol '&'".
C12_UnrecognizedSymbol ==
    Contains(Chars(user_mathexp), <<"&">>) =>
        /\ stage = "sanitize_failed"
        /\ error_message = "Unrecorgnized Symbol '&'"


\* C13 as the claim states it: with implicit multiplication off, a registry
\* name that is not followed by '(' (the 'sin' of 'sin+x') makes
\* sanatize_expression fail with "Variable 'sin' is Taken", and a token is in
\* the Function set only if the text has it followed by '('.
C13_VariableNameCollision ==
    (ret # None /\ call.f = "sanatize_expression" /\ ~call.args[2]) =>
        /\ call.args[1] = "sin+x" => ret[2].err = "Variable 'sin' is Taken"
        /\ ret[2].err = "" =>
              \A e \in ret[2].elem.elemFct :
                  Contains(Normalized(Chars(call.args[1])), Append(Chars(e), "("))


\* C14: after every call of sanatize_expression that succeeds, the sets
\* Function, Constant, Variable and Composite are pairwise disjoint and their
\* union is the token set extracted from the expression (Composite is empty
\* unless implicit multiplication is on); and when a token fits none of the
\* classes the call fails with "Unrecorgnized Variable" naming such a token.
C14_ClassificationTotalExclusive ==
    (ret # None /\ call.f = "sanatize_expression") =>
        LET r == ret[2]
            expression == Normalized(Chars(call.args[1]))
            toks == SplitTokens(expression, <<>>)
            sets == <<r.elem.elemFct, r.elem.elemConst, r.elem.elemVar,
                      r.elem.elemCmplx>>
        IN  /\ r.err = "" =>
                  /\ r.elem.elemTotal = toks
                  /\ UNION Range(sets) = toks
                  /\ \A i, j \in 1..4 : i # j => sets[i] \cap sets[j] = {}
                  /\ \A e \in toks : \E i \in 1..4 : e \in sets[i]
                  /\ ~call.args[2] => r.elem.elemCmplx = {}
            /\ (\E e \in toks :
                   ClassifyToken(e, expression, call.args[2]) = "Unrecognized")
                 => \E e \in toks :
                       /\ ClassifyToken(e, expression, call.args[2]) = "Unrecognized"
                       /\ r.err = "Unrecorgnized Variable '" \o e \o "'"

\* the successful call on 'sin(2a)+b+2' under implicit multiplication has one
\* token in each of the four classes
C14_Witness ==
    /\ ret # None
    /\ call = [f |-> "sanatize_expression", args |-> <<"sin(2a)+b+2", TRUE>>]
    /\ ret[2].err = ""
    /\ ret[2].elem = [elemTotal |-> {"sin", "2a", "b", "2"}, elemFct |-> {"sin"},
                      elemConst |-> {"2"}, elemVar |-> {"b"},
                      elemCmplx |-> {"2a"}]


\* the key occurs at position p of s as a whole token: a number with no digit
\* and no '.' on either side, a word with no word character on either side
ExactAt(s, p, key) ==
    LET numeric == \A i \in 1..Len(key) : key[i] \in DigitChars \cup {"."}
        joins(c) == IF numeric THEN c \in DigitChars \cup {"."}
                    ELSE c \in LowerChars \cup UpperChars \cup DigitChars \cup {"_"}
    IN  /\ p + Len(key) - 1 <= Len(s)
        /\ SubSeq(s, p, p + Len(key) - 1) = key
        /\ ~(p > 1 /\ joins(s[p - 1]))
        /\ ~(p + Len(key) <= Len(s) /\ joins(s[p + Len(key)]))

\* out (from its element j) is s (from its character p) with the whole-token
\* occurrences of the keys replaced in one pass by their values and every
\* other character copied
RECURSIVE OnePass(_, _, _, _, _, _)
OnePass(out, j, s, p, keys, vals) ==
    IF p > Len(s) THEN j = Len(out) + 1
    ELSE IF \E k \in 1..Len(keys) : ExactAt(s, p, keys[k])
    THEN LET k == CHOOSE k \in 1..Len(keys) : ExactAt(s, p, keys[k])
         IN  /\ j + Len(vals[k]) - 1 <= Len(out)
             /\ SubSeq(out, j, j + Len(vals[k]) - 1) = vals[k]
             /\ OnePass(out, j + Len(vals[k]), s, p + Len(keys[k]), keys, vals)
    ELSE /\ j <= Len(out)
         /\ out[j] = s[p]
         /\ OnePass(out, j + 1, s, p + 1, keys, vals)

C16_ExponentBindsImmediateBase ==
    (ret # None /\ call.f = "replace_superscript_exponents") =>
        /\ call.args[1] = "2a²b" => ret[2] = "2(a**2)b"
        /\ call.args[1] = "(a+b)²" => ret[2] = "(a+b)**2"
        /\ call.args[1] = ")²³" => ret[2] = ")**23"


\* C17 (as amended): a glyph that stands as an exact token is replaced by its
\* 7-digit value whether Recognize Irrationals is on or off ('π*a' compiles
\* from '3.1415927*a' in both settings); a glyph inside a longer word is not
\* replaced and the sanitizer rejects the expression ('πa'); the option only
\* rewrites the macros in the raw expression: with the option on, 'Pi*a'
\* becomes 'π*a' before the pass, with the option off 'Pi' is a variable.
C17_GlyphsAlwaysReplaced ==
    /\ user_mathexp = "π*a" =>
          /\ stage = "applied"
          /\ debug_sanatized = "3.1415927*a"
          /\ elem.elemConst = {"3.1415927"}
          /\ Range(Names(inputs)) = {"a"}
    /\ user_mathexp = "πa" =>
          /\ stage = "sanitize_failed"
          /\ error_message = "Unrecorgnized Symbol 'π'"
    /\ user_mathexp = "Pi*a" =>
          /\ ~auto_symbols
          /\ stage = "applied"
          /\ debug_sanatized = "Pi*a"
          /\ Range(Names(inputs)) = {"Pi", "a"}

\* the glyph is replaced while Recognize Irrationals is off
C17_Witness ==
    /\ user_mathexp = "π*a"
    /\ ~auto_symbols
    /\ passes > 0
    /\ stage = "applied"
    /\ debug_sanatized = "3.1415927*a"

\* C17 as the claim states it: with Recognize Irrationals off the glyph is
\* not replaced and the expression is rejected.
C17_ReplacedIffEnabled ==
    (user_mathexp = "π*a" /\ ~auto_symbols) =>
        /\ stage = "sanitize_failed"
        /\ debug_sanatized = "Failed"


\* what feeds the socket src of the tree of st: the name of an input socket,
\* or the node with, for each of its linked inputs, what feeds it
RECURSIVE SourceSig(_, _)
SourceSig(st, src) ==
    IF src[1] = "in"
    THEN <<"in", st.inputs[CHOOSE k \in 1..Len(st.inputs) :
                              st.inputs[k].id = src[2]].name>>
    ELSE <<"node", st.nodes[src[2]],
           {<<l[2][3], SourceSig(st, l[1])>> :
                l \in {m \in st.links : m[2][1] = "node" /\ m[2][2] = src[2]}}>>

\* the fragment of st up to the numbering of its nodes and the order of its
\* sockets: the input names, the nodes (kind, operation, value and what feeds
\* them) each with the number of its copies, and what feeds the output
Structure(st) ==
    [names |-> Range(Names(st.inputs)),
     nodes |-> {<<SourceSig(st, NodeSource(k)),
                  Cardinality({j \in 1..Len(st.nodes) :
                      SourceSig(st, NodeSource(j)) = SourceSig(st, NodeSource(k))})>> :
                   k \in 1..Len(st.nodes)},
     out   |-> {SourceSig(st, l[1]) : l \in {m \in st.links : m[2] = OutSocket}}]

\* a node whose tree has no input socket and no interior node
CleanNode(e, im, au) ==
    [user_mathexp |-> e, implicit_mult |-> im, auto_symbols |-> au,
     error_message |-> "", debug_sanatized |-> "", debug_fctexp |-> "",
     elem |-> NoElem, inputs |-> <<>>, nodes |-> <<>>, links |-> {}, active |-> 0,
     uid |-> 0, stage |-> "init", result |-> None, trace |-> <<>>]

\* C18 as the claim states it: two compilations of the node's expression with
\* the node's option flags, each from a clean tree, give fragments with the
\* same input names, the same nodes and the same links.
C18_SameFragmentFromClean ==
    \A st1, st2 \in apply_expression(CleanNode(user_mathexp, implicit_mult, auto_symbols)) :
        Structure(st1) = Structure(st2)


\* C19 as the claim states it: every pass ends applied or failed with an error
\* message for the user, and no exception leaves apply_expression, also for a
\* constant with two decimal points.
C19_NoFaultEscapes ==
    /\ stage # "crashed"
    /\ stage \in {"sanitize_failed", "parse_failed", "exec_failed", "link_failed"}
          => error_message # ""
    /\ user_mathexp = "1.2.3+a" =>
          stage \in {"sanitize_failed", "parse_failed", "exec_failed", "link_failed"}


\* the macros 'Pi', 'eNum', 'Gold' that stand as exact tokens in the text
MacrosIn(text) == match_exact_tokens(Chars(text), MacroKeys)

\* C20 (as amended): a property update runs one pass, entered and returned,
\* unless Recognize Irrationals is on and the expression holds a macro: then
\* the pass rewrites the expression and apply_expression is entered again, on
\* the rewritten text, before the first call has returned; the inner pass runs
\* to its end, the outer call returns straight after it, and no third call is
\* made (the rewritten text holds no macro).
C20_OneNestedPassForMacros ==
    \/ /\ Len(trace) = 2
       /\ trace[1] = <<"enter", user_mathexp>>
       /\ trace[2] = <<"return", stage>>
       /\ ~(auto_symbols /\ MacrosIn(user_mathexp) # <<>>)
    \/ /\ Len(trace) = 4
       /\ trace[1][1] = "enter"
       /\ auto_symbols
       /\ MacrosIn(trace[1][2]) # <<>>
       /\ user_mathexp = Str(MacrosReplaced(Chars(trace[1][2]), MacrosIn(trace[1][2])))
       /\ MacrosIn(user_mathexp) = <<>>
       /\ trace[2] = <<"enter", user_mathexp>>
       /\ trace[3] = <<"return", stage>>
       /\ trace[4] = <<"return", stage>>

\* 'Pi*a' with Recognize Irrationals on: the pass on 'π*a' ran inside the pass
\* on 'Pi*a'
C20_Witness ==
    /\ auto_symbols
    /\ user_mathexp = "π*a"
    /\ stage = "applied"
    /\ trace = << <<"enter", "Pi*a">>, <<"enter", "π*a">>,
                  <<"return", "applied">>, <<"return", "applied">> >>

\* C20 as the claim states it: apply_expression is never entered while a call
\* of it has not returned.
C20_NoPassInsideAPass ==
    \A i \in 1..(Len(trace) - 1) : ~(trace[i][1] = "enter" /\ trace[i + 1][1] = "enter")


\* C21 as the claim states it: after any sequence of edits error_message is
\* empty exactly when the last pass ended applied.
C21_ErrorEmptyIffApplied ==
    (error_message = "") <=> (stage = "applied")


\* the names of the VALUE nodes of the tree, in the order the pass made them
ConstNames ==
    LET values == SelectSeq(nodes, LAMBDA n : n.type = "VALUE")
    IN  [k \in 1..Len(values) |-> values[k].name]

\* the text the last pass handed to exec(): the call form with the variables
\* and the constants replaced by their handles
EvaluatedText ==
    replace_exact_tokens(Chars(debug_fctexp), ApiKeys(inputs, ConstNames),
                         ApiVals(inputs, ConstNames))

\* the identifiers of an expression tree
RECURSIVE NamesIn(_)
NamesIn(n) ==
    (IF Kind(n) = "Name" THEN {Text(n)} ELSE {})
      \cup UNION {NamesIn(Children(n)[k]) : k \in 1..Len(Children(n))}

\* the identifiers of the evaluated text that the lookup of exec() finds
ResolvedNames ==
    LET tree == ast_parse(EvaluatedText)
    IN  IF tree.ok
        THEN NamesIn(tree.node) \cap (get_functions \cup NamespaceObjects \cup PyBuiltins)
        ELSE {}

\* C22 as the claim states it: in every pass that reaches exec(), in either
\* implicit-multiplication setting, the only identifiers of the evaluated text
\* that resolve are registry primitives (the variables are socket handles by
\* then); no host built-in and no other name of the namespace is reachable.
C22_OnlyRegistryNamesResolve ==
    stage \in {"applied", "exec_failed", "link_failed"} =>
        ResolvedNames \subseteq get_functions


\* C23 as the claim states it: after a pass that left error_message empty the
\* output socket is linked (to the root of the fragment of the expression);
\* no pass clears the tree and returns with no message and no output link.
C23_EmptyMessageMeansLinked ==
    (stage # "init" /\ error_message = "") =>
        \E l \in links : l[2] = OutSocket


\* the number literals left in the text the last pass handed to exec()
RawNumbers ==
    LET toks == TokenizeFrom(EvaluatedText, 1, <<>>)
    IN  {toks[k][2] : k \in {j \in 1..Len(toks) : toks[j][1] = "NUMBER"}}

\* C24 as the claim states it: in every pass that reaches exec() each token
\* the sanitizer classified as a constant stands in the evaluated text as the
\* handle of its own VALUE node, and (when no token is complex) the evaluated
\* text holds no number literal.
C24_ConstantsBecomeHandles ==
    stage \in {"applied", "exec_failed", "link_failed"} =>
        /\ \A c \in elem.elemConst : NodeHandle(c) \in Range(EvaluatedText)
        /\ elem.elemCmplx = {} => RawNumbers = {}


\* the node after the step is the node st, but for the trace
BecomesButTrace(st) ==
    /\ user_mathexp' = st.user_mathexp
    /\ error_message' = st.error_message
    /\ debug_sanatized' = st.debug_sanatized
    /\ debug_fctexp' = st.debug_fctexp
    /\ elem' = st.elem
    /\ inputs' = st.inputs
    /\ nodes' = st.nodes
    /\ links' = st.links
    /\ active' = st.active
    /\ uid' = st.uid
    /\ stage' = st.stage
    /\ result' = st.result

\* C25: with Recognize Irrationals on, a property update on an expression
\* that holds a macro enters apply_expression exactly twice; the text of the
\* second call holds no macro; and the node is left exactly as one plain pass
\* on the rewritten text leaves it: the outer call changes neither the graph
\* nor a diagnostic once the nested call has returned.
C25_MacroRewriteTerminates ==
    [][(passes' = passes + 1 /\ auto_symbols' /\ MacrosIn(trace'[1][2]) # <<>>) =>
          /\ Len(SelectSeq(trace', LAMBDA ev : ev[1] = "enter")) = 2
          /\ trace'[2][1] = "enter"
          /\ MacrosIn(trace'[2][2]) = <<>>
          /\ \E st \in ApplyPass(ResetMessages(
                          [State EXCEPT
                              !.user_mathexp =
                                  Str(MacrosReplaced(Chars(trace'[1][2]),
                                                     MacrosIn(trace'[1][2]))),
                              !.implicit_mult = implicit_mult',
                              !.auto_symbols = auto_symbols'])) :
                 BecomesButTrace(st)]_vars

\* the update on 'Pi*a' with the option on ended after one nested pass, with
\* the fragment of the rewritten text linked to the output
C25_Witness ==
    /\ auto_symbols
    /\ Len(trace) = 4
    /\ trace[1] = <<"enter", "Pi*a">>
    /\ debug_sanatized # ""
    /\ debug_fctexp # ""
    /\ error_message = ""
    /\ \E l \in links : l[2] = OutSocket

====
